---- MODULE Spec2Model ----
(***************************************************************************)
(* taska: a Taskwarrior hook that reconciles tasks with calendar events.   *)
(*                                                                         *)
(* One invocation of main (src/main.go) loads the Overdue Sweep Schedule   *)
(* and the Identity Index, runs the sweep pass, processes the hook's own   *)
(* task (sync or delete) and saves the caches.  The calendar client is the *)
(* index-aware CalendarClient (src/unnamed/part_005), the schedule is the  *)
(* slice-based Table (src/unnamed/part_002, second package), the index is  *)
(* EventIndex (src/pkg/index/index.go) and the materializer / patch        *)
(* generator are the taskwarrior.Task versions in src/pkg/util/util_test.go*)
(* (lines 382-688).                                                        *)
(*                                                                         *)
(* Time is counted in minutes.  A zero time.Time / nil *CustomTime is 0.   *)
(* An event id "" (no event) is 0.                                         *)
(***************************************************************************)
EXTENDS Integers, Sequences, FiniteSets, TLC

\* ------------------------------------------------------------------ bounds
NumTasks == 2      \* task identifiers 1..NumTasks
MaxEvents == 2     \* event ids the calendar service hands out
MaxTime == 1       \* scheduled times 1..MaxTime; the clock runs 1..MaxTime+1
MaxRuns == 2       \* invocations of the hook in one behaviour
NumProjects == 12  \* project names 1..NumProjects; the name "" is 0
MaxEvictions == 1  \* evictions from the color cache in one behaviour
NumScheduled == 3  \* task identifiers 1..NumScheduled of the schedule on its own
Horizon == 3       \* its scheduled times 1..Horizon; its clock runs 1..Horizon+1
MaxSaves == 2      \* writing saves of the index on its own
MaxSyncs == 2          \* SyncEvent calls for one snapshot in the materializer runs
NumNamedProjects == 2  \* project names a materialized snapshot can carry

\* ------------------------------------------------------- program constants
DefaultDuration == 30   \* defaultDuration := 30 * time.Minute
GrayColor == 14         \* GetColorID: "14" for a task without project
PaletteSize == 11       \* assignColor: for i := 1; i <= 11; i++
FallbackColor == 1      \* assignColor: return "1" // Fallback
LavenderColor == 1      \* ConvertTaskToCalendarEvent: colorID := "1"

Tasks == 1..NumTasks
Procs == {1, 2}
Times == 0..MaxTime
EventIds == 1..MaxEvents
Statuses == {"pending", "completed", "waiting", "deleted"}

VARIABLES
  now,        \* time.Now()
  events,     \* the remote calendar: set of events
  nextId,     \* last event id handed out by the calendar service
  runs,       \* invocations started so far
  sweepFile,  \* pending_tasks.json
  indexFile,  \* events.json
  pc,         \* per invocation: position in main
  input,      \* per invocation: twTasks parsed from stdin
  table,      \* per invocation: sweepTable
  idx,        \* per invocation: the EventIndex of the calendar client
  swept,      \* per invocation: sweptUUIDs still to be processed
  action,     \* per invocation: the action main chose for the hook's task
  ctx,        \* per invocation: the running SyncEvent / delete call
  last,       \* per invocation: what the last finished SyncEvent call did
  obs,        \* per invocation: record of observable effects
  colorFile,  \* project_colors.json
  cache,      \* a ColorCache: Projects and dirty
  call        \* the last GetColorID call: its arguments and what it returned

colorVars == << colorFile, cache, call >>

vars == << now, events, nextId, runs, sweepFile, indexFile, pc, input, table, idx,
           swept, action, ctx, last, obs, colorFile, cache, call >>

\* ------------------------------------------------------------ task snapshot
\* taskwarrior.Task, the fields the reconciliation reads.  blocked stands for
\* "BLOCKED" \in Tags; project 0 is the empty project name.
Task(u, st, bl, sc, du, sta, en, es, ac) ==
  [uuid |-> u, status |-> st, blocked |-> bl, scheduled |-> sc, due |-> du,
   start |-> sta, end |-> en, est |-> es, act |-> ac, project |-> 0]

\* The snapshots a hook invocation or a task export can deliver: any status
\* (BLOCKED is the tag of a pending task with an open dependency), with a
\* scheduled time, with a due time only, or with no time at all.
HookSnapshots ==
  { Task(u, sb[1], sb[2], d[1], d[2], 0, 0, 0, 0) :
      u \in Tasks,
      sb \in { << st, FALSE >> : st \in Statuses } \cup { << "pending", TRUE >> },
      d \in { << sc, 0 >> : sc \in Times } \cup { << 0, 1 >> } }

ZeroSnapshot == Task(1, "pending", FALSE, 0, 0, 0, 0, 0, 0)

\* ------------------------------------------------------------- timestamps
\* start.UTC().Format(time.RFC3339) and time.Parse(time.RFC3339, s)
FormatRFC3339(t) == << "dateTime", t >>

ParseRFC3339(s) ==
  IF s[1] = "dateTime" THEN [ok |-> TRUE, t |-> s[2]] ELSE [ok |-> FALSE, t |-> 0]

\* -------------------------------------------------------------- color cache
Projects == 1..NumProjects

\* A project without entry in ColorCache.Projects
NoProjectState == [colorId |-> 0, activeTasks |-> 0, lastModified |-> 0]

EmptyProjects == [pr \in Projects |-> NoProjectState]

\* The keys of c.Projects
Present(projs) == { pr \in Projects : projs[pr].colorId # 0 }

\* A scan that sees no color in use.
Used_Nothing(projs) == { projs[pr].colorId : pr \in {} }

\* assignColor: used[s.ColorID] = true for every entry
Used(projs) == { projs[pr].colorId : pr \in Present(projs) }

\* The palette colors no entry holds
Free(projs) == { i \in 1..PaletteSize : i \notin Used(projs) }

\* A scan of the palette from its upper end.
LowestFree_FromTop(projs) ==
  CHOOSE i \in Free(projs) : \A j \in Free(projs) : i >= j

\* assignColor, lines 111-113: the first unused id in the order 1..11
LowestFree(projs) ==
  CHOOSE i \in Free(projs) : \A j \in Free(projs) : i <= j

\* An eviction that takes the most recently used entry.
Oldest_MostRecent(projs) ==
  { pr \in Present(projs) :
      \A q \in Present(projs) : ~(projs[q].lastModified > projs[pr].lastModified) }

\* assignColor, lines 125-135: the loop keeps the first entry it meets and
\* replaces it only by a strictly older one; the order of a range over a Go
\* map is not specified, so any entry with the least LastModified can win.
Oldest(projs) ==
  { pr \in Present(projs) :
      \A q \in Present(projs) : ~(projs[q].lastModified < projs[pr].lastModified) }

\* assignColor: the possible outcomes [cache, ret, evicted]
assignColor(c, project, t) ==
  LET fresh(id) == [colorId |-> id, activeTasks |-> 1, lastModified |-> t]
  IN IF Free(c.projects) # {}
     THEN LET id == LowestFree(c.projects)
          IN { [cache |-> [projects |-> [c.projects EXCEPT ![project] = fresh(id)],
                           dirty |-> TRUE],
                ret |-> id, evicted |-> 0] }
     ELSE IF Oldest(c.projects) = {}
     THEN { [cache |-> c, ret |-> FallbackColor, evicted |-> 0] }
     ELSE { [cache |-> [projects |-> [c.projects EXCEPT
                                        ![o] = NoProjectState,
                                        ![project] = fresh(c.projects[o].colorId)],
                        dirty |-> TRUE],
             ret |-> c.projects[o].colorId, evicted |-> o] :
            o \in Oldest(c.projects) }

\* A lookup that returns the color of a known project and touches nothing.
GetColorID_NoTouch(c, project, isTaskActive, t) ==
  IF project = 0
  THEN { [cache |-> c, ret |-> GrayColor, evicted |-> 0] }
  ELSE IF c.projects[project].colorId # 0
  THEN { [cache |-> c, ret |-> c.projects[project].colorId, evicted |-> 0] }
  ELSE assignColor(c, project, t)

\* A lookup that answers a new project with the fallback color.
GetColorID_FallbackOnNew(c, project, isTaskActive, t) ==
  IF project = 0
  THEN { [cache |-> c, ret |-> GrayColor, evicted |-> 0] }
  ELSE IF c.projects[project].colorId # 0
  THEN { [cache |-> [c EXCEPT !.projects[project].lastModified = t, !.dirty = TRUE],
          ret |-> c.projects[project].colorId, evicted |-> 0] }
  ELSE { [r EXCEPT !.ret = FallbackColor] : r \in assignColor(c, project, t) }

\* A lookup that assigns colors for active tasks only.
GetColorID_ActiveOnly(c, project, isTaskActive, t) ==
  IF project = 0
  THEN { [cache |-> c, ret |-> GrayColor, evicted |-> 0] }
  ELSE IF c.projects[project].colorId # 0
  THEN { [cache |-> [c EXCEPT !.projects[project].lastModified = t, !.dirty = TRUE],
          ret |-> c.projects[project].colorId, evicted |-> 0] }
  ELSE IF isTaskActive THEN assignColor(c, project, t)
  ELSE { [cache |-> c, ret |-> GrayColor, evicted |-> 0] }

\* GetColorID: the possible outcomes [cache, ret, evicted]
GetColorID(c, project, isTaskActive, t) ==
  IF project = 0
  THEN { [cache |-> c, ret |-> GrayColor, evicted |-> 0] }
  ELSE IF c.projects[project].colorId # 0
  THEN { [cache |-> [c EXCEPT !.projects[project].lastModified = t, !.dirty = TRUE],
          ret |-> c.projects[project].colorId, evicted |-> 0] }
  ELSE assignColor(c, project, t)

\* NewColorCache: the cache of project_colors.json, nil when it does not decode
NewColorCache ==
  IF colorFile.whole
  THEN [ok |-> TRUE, cache |-> [projects |-> colorFile.doc, dirty |-> FALSE]]
  ELSE [ok |-> FALSE, cache |-> [projects |-> EmptyProjects, dirty |-> FALSE]]

\* ConvertTaskToCalendarEvent, lines 527-537: the color of the task's project
\* from a cache loaded for this call, "1" when the cache does not load.  The
\* cache is dropped when the call returns: nothing saves it.
ColorLogic(task, t) ==
  IF NewColorCache.ok
  THEN LET isActive == task.status = "pending" \/ task.status = "waiting"
           r == CHOOSE x \in GetColorID(NewColorCache.cache, task.project, isActive, t) : TRUE
       IN r.ret
  ELSE LavenderColor

\* ------------------------------------------------------------ materializer
\* A title that looks at the dates of a started task too.
TitlePrefix_OverdueFirst(task, t) ==
  IF task.status = "completed" THEN "done"
  ELSE IF (task.due # 0 /\ task.due < t) \/ (task.scheduled # 0 /\ task.scheduled < t)
       THEN "overdue"
  ELSE IF task.start # 0 THEN "started"
  ELSE "plain"

\* ConvertTaskToCalendarEvent, lines 508-520: the marker before the title
TitlePrefix(task, t) ==
  IF task.status = "completed" THEN "done"
  ELSE IF task.start # 0 THEN "started"
  ELSE IF (task.due # 0 /\ task.due < t) \/ (task.scheduled # 0 /\ task.scheduled < t)
       THEN "overdue"
  ELSE "plain"

Duration(task) == IF task.est > 0 THEN task.est ELSE DefaultDuration

\* A time window that prefers the estimate of a completed task to its actual
\* duration and the deadline of an open task to its scheduled time.
TimeWindow_EstimateFirst(task, t) ==
  IF task.status = "completed" THEN
    LET end == IF task.end # 0 THEN task.end ELSE t
        d == IF task.est > 0 THEN task.est
             ELSE IF task.act > 0 THEN task.act ELSE DefaultDuration
    IN [ok |-> TRUE, start |-> end - d, end |-> end]
  ELSE IF task.start # 0 THEN
    [ok |-> TRUE, start |-> task.start, end |-> task.start + Duration(task)]
  ELSE IF task.due # 0 THEN
    [ok |-> TRUE, start |-> task.due, end |-> task.due + Duration(task)]
  ELSE IF task.scheduled # 0 THEN
    [ok |-> TRUE, start |-> task.scheduled, end |-> task.scheduled + Duration(task)]
  ELSE [ok |-> FALSE, start |-> 0, end |-> 0]

\* ConvertTaskToCalendarEvent, lines 539-592.  The time window: [ok, start, end]
TimeWindow(task, t) ==
  IF task.status = "completed" THEN
    LET end == IF task.end # 0 THEN task.end ELSE t
        d == IF task.act > 0 THEN task.act
             ELSE IF task.est > 0 THEN task.est ELSE DefaultDuration
    IN [ok |-> TRUE, start |-> end - d, end |-> end]
  ELSE IF task.start # 0 THEN
    [ok |-> TRUE, start |-> task.start, end |-> task.start + Duration(task)]
  ELSE IF task.scheduled # 0 THEN
    [ok |-> TRUE, start |-> task.scheduled, end |-> task.scheduled + Duration(task)]
  ELSE IF task.due # 0 THEN
    [ok |-> TRUE, start |-> task.due, end |-> task.due + Duration(task)]
  ELSE [ok |-> FALSE, start |-> 0, end |-> 0]

\* The rendered description text: tags, status, accounting block.
DescriptionText(task) ==
  LET drift == IF task.start # 0 /\ task.scheduled # 0
               THEN task.start - task.scheduled ELSE 0
      spent == IF task.status # "completed" THEN 0
               ELSE IF task.act > 0 THEN task.act
               ELSE IF task.start # 0 /\ task.end # 0 THEN task.end - task.start
               ELSE 0
  IN [tags |-> task.blocked, status |-> task.status, uuid |-> task.uuid,
      project |-> task.project, est |-> task.est,
      drift |-> IF drift > 1 \/ drift < -1 THEN drift ELSE 0,
      spent |-> IF spent > 0 THEN spent ELSE 0,
      delta |-> IF spent > 0 /\ task.est > 0 THEN spent - task.est ELSE 0]

\* A materializer that lets a task without any date through.
ConvertTaskToCalendarEvent_NoDateCheck(task, t) ==
  LET w == TimeWindow(task, t)
  IN [ok |-> TRUE,
      event |-> [summary |-> TitlePrefix(task, t),
                 description |-> DescriptionText(task),
                 colorId |-> ColorLogic(task, t),
                 start |-> FormatRFC3339(w.start),
                 end |-> FormatRFC3339(w.end),
                 taskwarrior_id |-> task.uuid]]

\* A materializer that leaves the task's identifier out of the event.
ConvertTaskToCalendarEvent_Anonymous(task, t) ==
  LET w == TimeWindow(task, t)
  IN [ok |-> w.ok,
      event |-> [summary |-> TitlePrefix(task, t),
                 description |-> DescriptionText(task),
                 colorId |-> ColorLogic(task, t),
                 start |-> FormatRFC3339(w.start),
                 end |-> FormatRFC3339(w.end),
                 taskwarrior_id |-> 0]]

\* ConvertTaskToCalendarEvent: [ok, event]
ConvertTaskToCalendarEvent(task, t) ==
  LET w == TimeWindow(task, t)
  IN [ok |-> w.ok,
      event |-> [summary |-> TitlePrefix(task, t),
                 description |-> DescriptionText(task),
                 colorId |-> ColorLogic(task, t),
                 start |-> FormatRFC3339(w.start),
                 end |-> FormatRFC3339(w.end),
                 taskwarrior_id |-> task.uuid]]

\* --------------------------------------------------------- patch generator
\* A patch generator that overlooks the description text.
EventNeedsUpdate_SkipsDescription(existing, target) ==
  LET es == ParseRFC3339(existing.start)
      ts == ParseRFC3339(target.start)
      ee == ParseRFC3339(existing.end)
      te == ParseRFC3339(target.end)
      fields == (IF existing.summary # target.summary THEN {"summary"} ELSE {})
          \cup (IF existing.colorId # target.colorId THEN {"colorId"} ELSE {})
  IN IF ~(es.ok /\ ts.ok /\ ee.ok /\ te.ok)
     THEN [err |-> TRUE, patch |-> {}]
     ELSE [err |-> FALSE,
           patch |-> fields \cup (IF es.t # ts.t \/ ee.t # te.t THEN {"time"} ELSE {})]

\* A patch generator that replaces the times in any case.
EventNeedsUpdate_AlwaysTime(existing, target) ==
  LET es == ParseRFC3339(existing.start)
      ts == ParseRFC3339(target.start)
      ee == ParseRFC3339(existing.end)
      te == ParseRFC3339(target.end)
      fields == (IF existing.summary # target.summary THEN {"summary"} ELSE {})
          \cup (IF existing.description # target.description THEN {"description"} ELSE {})
          \cup (IF existing.colorId # target.colorId THEN {"colorId"} ELSE {})
  IN IF ~(es.ok /\ ts.ok /\ ee.ok /\ te.ok)
     THEN [err |-> TRUE, patch |-> {}]
     ELSE [err |-> FALSE, patch |-> fields \cup {"time"}]

\* A patch generator that compares the timestamps as strings.
EventNeedsUpdate_RawTimes(existing, target) ==
  LET es == ParseRFC3339(existing.start)
      ts == ParseRFC3339(target.start)
      ee == ParseRFC3339(existing.end)
      te == ParseRFC3339(target.end)
      fields == (IF existing.summary # target.summary THEN {"summary"} ELSE {})
          \cup (IF existing.description # target.description THEN {"description"} ELSE {})
          \cup (IF existing.colorId # target.colorId THEN {"colorId"} ELSE {})
  IN IF ~(es.ok /\ ts.ok /\ ee.ok /\ te.ok)
     THEN [err |-> TRUE, patch |-> {}]
     ELSE [err |-> FALSE,
           patch |-> fields \cup (IF existing.start # target.start \/ existing.end # target.end
                                  THEN {"time"} ELSE {})]

\* A patch generator that passes over timestamps it cannot parse.
EventNeedsUpdate_IgnoresParseErrors(existing, target) ==
  LET es == ParseRFC3339(existing.start)
      ts == ParseRFC3339(target.start)
      ee == ParseRFC3339(existing.end)
      te == ParseRFC3339(target.end)
      fields == (IF existing.summary # target.summary THEN {"summary"} ELSE {})
          \cup (IF existing.description # target.description THEN {"description"} ELSE {})
          \cup (IF existing.colorId # target.colorId THEN {"colorId"} ELSE {})
  IN IF ~(es.ok /\ ts.ok /\ ee.ok /\ te.ok)
     THEN [err |-> FALSE, patch |-> fields]
     ELSE [err |-> FALSE,
           patch |-> fields \cup (IF es.t # ts.t \/ ee.t # te.t THEN {"time"} ELSE {})]

\* EventNeedsUpdate: [err, patch]; patch is the set of fields to replace,
\* the empty set standing for a nil patch.
EventNeedsUpdate(existing, target) ==
  LET es == ParseRFC3339(existing.start)
      ts == ParseRFC3339(target.start)
      ee == ParseRFC3339(existing.end)
      te == ParseRFC3339(target.end)
      fields == (IF existing.summary # target.summary THEN {"summary"} ELSE {})
          \cup (IF existing.description # target.description THEN {"description"} ELSE {})
          \cup (IF existing.colorId # target.colorId THEN {"colorId"} ELSE {})
  IN IF ~(es.ok /\ ts.ok /\ ee.ok /\ te.ok)
     THEN [err |-> TRUE, patch |-> {}]
     ELSE [err |-> FALSE,
           patch |-> fields \cup (IF es.t # ts.t \/ ee.t # te.t THEN {"time"} ELSE {})]

\* A patch that carries the summary only.
ApplyPatch_SummaryOnly(ev, target, patch) ==
  [ev EXCEPT !.summary = IF "summary" \in patch THEN target.summary ELSE @]

\* Events.Patch: the fields of the patch replace the event's
ApplyPatch(e, target, patch) ==
  [e EXCEPT !.summary = IF "summary" \in patch THEN target.summary ELSE @,
            !.description = IF "description" \in patch THEN target.description ELSE @,
            !.colorId = IF "colorId" \in patch THEN target.colorId ELSE @,
            !.start = IF "time" \in patch THEN target.start ELSE @,
            !.end = IF "time" \in patch THEN target.end ELSE @]

\* ---------------------------------------------------------- remote calendar
RemoteEvent(id, ev) == [id |-> id, ev |-> ev]

\* Events.Get(calendarID, eventID): the events carrying that id
EventsGet(id) == { e \in events : e.id = id }

\* Events.List(...).PrivateExtendedProperty("taskwarrior_id=<taskID>")
EventsOfTask(taskID) == { e \in events : e.ev.taskwarrior_id = taskID }

\* A search that never finds an event.
GetEventByTaskID_Blind(taskID) == { {} }

\* GetEventByTaskID: the possible results of a successful search, each a set
\* of at most one event (events.Items[0], in the order the service lists).
GetEventByTaskID(taskID) ==
  IF EventsOfTask(taskID) = {} THEN { {} }
  ELSE { {e} : e \in EventsOfTask(taskID) }

\* ----------------------------------------------------------- identity index
EmptyMappings == [t \in Tasks |-> 0]

\* json Encode(idx.Mappings): the object's members, one per key of the map
EncodeMappings(m) == { << t, m[t] >> : t \in { u \in Tasks : m[u] # 0 } }

\* json Decode(&idx.Mappings) into the fresh map of NewEventIndex
DecodeMappings(doc) ==
  [t \in Tasks |->
     IF \E e \in EventIds : << t, e >> \in doc
     THEN CHOOSE e \in EventIds : << t, e >> \in doc
     ELSE 0]

IndexGet(ix, taskID) == ix.mappings[taskID]

\* A record that keeps the event a task already has.
IndexSet_FirstWins(ix, taskID, eventID) ==
  IF ix.mappings[taskID] = 0
  THEN [ix EXCEPT !.mappings[taskID] = eventID, !.dirty = TRUE]
  ELSE ix

IndexSet(ix, taskID, eventID) ==
  IF ix.mappings[taskID] # eventID
  THEN [ix EXCEPT !.mappings[taskID] = eventID, !.dirty = TRUE]
  ELSE ix

\* A forget that marks the index dirty in any case.
IndexRemove_AlwaysDirty(ix, taskID) ==
  [ix EXCEPT !.mappings[taskID] = 0, !.dirty = TRUE]

IndexRemove(ix, taskID) ==
  IF ix.mappings[taskID] # 0
  THEN [ix EXCEPT !.mappings[taskID] = 0, !.dirty = TRUE]
  ELSE ix

\* NewEventIndex: the index of events.json, nil when the file does not decode
NewEventIndex ==
  IF indexFile.whole
  THEN [ok |-> TRUE, mappings |-> DecodeMappings(indexFile.doc), dirty |-> FALSE]
  ELSE [ok |-> FALSE, mappings |-> EmptyMappings, dirty |-> FALSE]

\* ----------------------------------------------------------- sweep schedule
Entry(u, s) == [uuid |-> u, scheduled |-> s]

\* A removal that leaves the table as it is.
TableRemove_Nothing(entries, uuid) == entries

\* Table.Remove: drops the first entry of the task
TableRemove(entries, uuid) ==
  LET hits == { i \in 1..Len(entries) : entries[i].uuid = uuid }
  IN IF hits = {} THEN entries
     ELSE LET i == CHOOSE k \in hits : \A m \in hits : k <= m
          IN SubSeq(entries, 1, i - 1) \o SubSeq(entries, i + 1, Len(entries))

\* A sort that leaves the entries in the order of insertion.
SortSlice_Unsorted(entries) == { entries }

\* sort.Slice by Scheduled: any ordering of the entries with ascending
\* Scheduled (sort.Slice is not stable).
SortSlice(entries) ==
  LET n == Len(entries)
      perms == { f \in [1..n -> 1..n] : \A i, j \in 1..n : i # j => f[i] # f[j] }
  IN { [i \in 1..n |-> entries[f[i]]] : f \in
         { g \in perms : \A i \in 1..n, j \in 1..n :
              i < j => ~(entries[g[j]].scheduled < entries[g[i]].scheduled) } }

\* An update that enters a task of any status.
TableUpdate_AnyStatus(entries, task) ==
  LET removed == TableRemove(entries, task.uuid)
  IN IF task.scheduled # 0
     THEN SortSlice(Append(removed, Entry(task.uuid, task.scheduled)))
     ELSE { removed }

\* An update that enters a task only while its scheduled time is ahead.
TableUpdate_FutureOnly(entries, task) ==
  LET removed == TableRemove(entries, task.uuid)
  IN IF task.status = "pending" /\ task.scheduled # 0 /\ task.scheduled > now
     THEN SortSlice(Append(removed, Entry(task.uuid, task.scheduled)))
     ELSE { removed }

\* Table.Update: the possible resulting entries
TableUpdate(entries, task) ==
  LET removed == TableRemove(entries, task.uuid)
  IN IF task.status = "pending" /\ task.scheduled # 0
     THEN SortSlice(Append(removed, Entry(task.uuid, task.scheduled)))
     ELSE { removed }

\* A walk that also takes the entries scheduled at now.
RECURSIVE SweepCount_Inclusive(_, _)
SweepCount_Inclusive(entries, t) ==
  IF entries # << >> /\ Head(entries).scheduled <= t
  THEN 1 + SweepCount_Inclusive(Tail(entries), t)
  ELSE 0

\* Table.Sweep: the prefix strictly before now is returned and removed
RECURSIVE SweepCount(_, _)
SweepCount(entries, t) ==
  IF entries # << >> /\ Head(entries).scheduled < t
  THEN 1 + SweepCount(Tail(entries), t)
  ELSE 0

\* A sweep that returns the overdue ids and keeps their entries.
TableSweep_KeepsEntries(entries, t) ==
  LET k == SweepCount(entries, t)
  IN [swept |-> [i \in 1..k |-> entries[i].uuid], rest |-> entries]

TableSweep(entries, t) ==
  LET k == SweepCount(entries, t)
  IN [swept |-> [i \in 1..k |-> entries[i].uuid],
      rest |-> SubSeq(entries, k + 1, Len(entries))]

\* A loader that answers a file it cannot decode with an empty table.
NewTable_EmptyOnError ==
  IF sweepFile.whole
  THEN [ok |-> TRUE, entries |-> sweepFile.doc]
  ELSE [ok |-> TRUE, entries |-> << >>]

\* NewTable: the table of pending_tasks.json, nil when the file does not decode
NewTable ==
  IF sweepFile.whole
  THEN [ok |-> TRUE, entries |-> sweepFile.doc]
  ELSE [ok |-> FALSE, entries |-> << >>]

\* ------------------------------------------------------------ hook decision
\* A decision that forgets the deleted status.
ChooseAction_IgnoresDeleted(n, newT) ==
  IF n >= 2 /\ (newT.status = "waiting" \/ newT.blocked)
  THEN "delete"
  ELSE "sync"

\* main, step 9: the action for the parsed snapshots
ChooseAction(n, newT) ==
  IF n >= 2 /\ (newT.status = "waiting" \/ newT.blocked \/ newT.status = "deleted")
  THEN "delete"
  ELSE "sync"

\* ------------------------------------------------------------------- state
\* The zero calendar.Event of a SyncEvent call that has not materialized yet
NoEvent == [summary |-> "plain", description |-> DescriptionText(ZeroSnapshot),
            colorId |-> GrayColor, start |-> FormatRFC3339(0),
            end |-> FormatRFC3339(0), taskwarrior_id |-> ZeroSnapshot.uuid]

NoCtx == [mode |-> "none", task |-> ZeroSnapshot, existing |-> {}, target |-> NoEvent]

NoLast == [valid |-> FALSE, task |-> 0, err |-> FALSE, resolved |-> "error",
           creates |-> 0, patches |-> 0, event |-> 0]

\* No GetColorID call yet
NoCall == [project |-> 0, ret |-> 0, evicted |-> 0, evictions |-> 0]

NoObs == [del |-> "none", sweepWrites |-> 0, indexWrites |-> 0,
          tableChanged |-> FALSE, outputs |-> 0, resynced |-> {},
          sweptTasks |-> {}, solo |-> TRUE, indexChanged |-> FALSE,
          duplicates |-> FALSE, printed |-> << >>]

Init ==
  /\ now = 1
  /\ events = {}
  /\ nextId = 0
  /\ runs = 0
  /\ sweepFile = [whole |-> TRUE, doc |-> << >>]
  /\ indexFile = [whole |-> TRUE, doc |-> EncodeMappings(EmptyMappings)]
  /\ pc = [p \in Procs |-> "idle"]
  /\ input = [p \in Procs |-> [n |-> 0, new |-> ZeroSnapshot]]
  /\ table = [p \in Procs |-> [ok |-> TRUE, entries |-> << >>]]
  /\ idx = [p \in Procs |-> [ok |-> TRUE, mappings |-> EmptyMappings, dirty |-> FALSE]]
  /\ swept = [p \in Procs |-> << >>]
  /\ action = [p \in Procs |-> "none"]
  /\ ctx = [p \in Procs |-> NoCtx]
  /\ last = [p \in Procs |-> NoLast]
  /\ obs = [p \in Procs |-> NoObs]
  /\ colorFile \in { [whole |-> w, doc |-> EmptyProjects] : w \in BOOLEAN }
  /\ cache = [projects |-> EmptyProjects, dirty |-> FALSE]
  /\ call = NoCall

\* ------------------------------------------------------------ invocation
Running(p) == pc[p] \notin {"idle", "done"}

\* The table with new entries; the record notes whether they differ.
SetEntries(p, es) ==
  /\ table' = [table EXCEPT ![p].entries = es]
  /\ obs' = [obs EXCEPT ![p].tableChanged = @ \/ es # table[p].entries]

\* main, steps 5-7: load the caches, parse stdin, build the calendar client.
\* A client that cannot be built ends the invocation (deferred output/save).
StartWith(p, snapshots, limit) ==
  /\ ~Running(p)
  /\ runs < limit
  /\ \E n \in 0..2, snap \in snapshots, clientOk \in BOOLEAN :
       /\ n = 0 => snap = ZeroSnapshot
       /\ input' = [input EXCEPT ![p] = [n |-> n, new |-> snap]]
       /\ pc' = [pc EXCEPT ![p] = IF clientOk THEN "sweep" ELSE "finish"]
  /\ table' = [table EXCEPT ![p] = NewTable]
  /\ idx' = [idx EXCEPT ![p] = NewEventIndex]
  /\ swept' = [swept EXCEPT ![p] = << >>]
  /\ action' = [action EXCEPT ![p] = "none"]
  /\ ctx' = [ctx EXCEPT ![p] = NoCtx]
  /\ last' = [last EXCEPT ![p] = NoLast]
  /\ obs' = [q \in Procs |->
               IF q = p
               THEN [NoObs EXCEPT !.solo = \A r \in Procs \ {p} : ~Running(r),
                                  !.duplicates = \E t \in Tasks :
                                                   Cardinality(EventsOfTask(t)) > 1]
               ELSE IF Running(q) THEN [obs[q] EXCEPT !.solo = FALSE]
               ELSE obs[q]]
  /\ runs' = runs + 1
  /\ UNCHANGED << now, events, nextId, sweepFile, indexFile >>
  /\ UNCHANGED colorVars

\* An invocation of the hook with any snapshot on stdin
Start(p) == StartWith(p, HookSnapshots, MaxRuns)

\* main, step 8: sweepTable.Sweep(time.Now())
RunSweep(p) ==
  /\ pc[p] = "sweep"
  /\ IF table[p].ok
     THEN LET r == TableSweep(table[p].entries, now)
          IN /\ swept' = [swept EXCEPT ![p] = r.swept]
             /\ table' = [table EXCEPT ![p].entries = r.rest]
             /\ obs' = [obs EXCEPT ![p].tableChanged = r.rest # table[p].entries,
                                   ![p].sweptTasks = { r.swept[i] : i \in 1..Len(r.swept) }]
     ELSE UNCHANGED << swept, table, obs >>
  /\ pc' = [pc EXCEPT ![p] = "sweepNext"]
  /\ UNCHANGED << now, events, nextId, runs, sweepFile, indexFile, input, idx, action, ctx, last >>
  /\ UNCHANGED colorVars

\* The sweep loop: client.GetTasks fails or returns nothing -> continue
SweepSkip(p) ==
  /\ pc[p] = "sweepNext"
  /\ swept[p] # << >>
  /\ swept' = [swept EXCEPT ![p] = Tail(@)]
  /\ UNCHANGED << now, events, nextId, runs, sweepFile, indexFile, pc, input, table, idx,
                  action, ctx, last, obs >>
  /\ UNCHANGED colorVars

\* The sweep loop: the task's current state is fetched and handed to SyncEvent
SweepFetch(p) ==
  /\ pc[p] = "sweepNext"
  /\ swept[p] # << >>
  /\ \E snap \in HookSnapshots :
       /\ snap.uuid = Head(swept[p])
       /\ ctx' = [ctx EXCEPT ![p] = [NoCtx EXCEPT !.mode = "sweep", !.task = snap]]
  /\ swept' = [swept EXCEPT ![p] = Tail(@)]
  /\ pc' = [pc EXCEPT ![p] = "resolve"]
  /\ last' = [last EXCEPT ![p] = NoLast]
  /\ UNCHANGED << now, events, nextId, runs, sweepFile, indexFile, input, table, idx, action, obs >>
  /\ UNCHANGED colorVars

\* A sweep loop that is left before every swept task was processed.
SweepDone_Early(p) ==
  /\ pc[p] = "sweepNext"
  /\ pc' = [pc EXCEPT ![p] = "hook"]
  /\ UNCHANGED << now, events, nextId, runs, sweepFile, indexFile, input, table, idx,
                  swept, action, ctx, last, obs >>
  /\ UNCHANGED colorVars

\* The sweep loop is over
SweepDone(p) ==
  /\ pc[p] = "sweepNext"
  /\ swept[p] = << >>
  /\ pc' = [pc EXCEPT ![p] = "hook"]
  /\ UNCHANGED << now, events, nextId, runs, sweepFile, indexFile, input, table, idx,
                  swept, action, ctx, last, obs >>
  /\ UNCHANGED colorVars

\* main: len(twTasks) == 0 -> return
HookNone(p) ==
  /\ pc[p] = "hook"
  /\ input[p].n = 0
  /\ pc' = [pc EXCEPT ![p] = "finish"]
  /\ UNCHANGED << now, events, nextId, runs, sweepFile, indexFile, input, table, idx,
                  swept, action, ctx, last, obs >>
  /\ UNCHANGED colorVars

\* main, step 9: choose the action for the hook's task
HookDecide(p) ==
  /\ pc[p] = "hook"
  /\ input[p].n > 0
  /\ LET a == ChooseAction(input[p].n, input[p].new)
     IN /\ action' = [action EXCEPT ![p] = a]
        /\ pc' = [pc EXCEPT ![p] = IF a = "delete" THEN "delFind" ELSE "resolve"]
        /\ ctx' = [ctx EXCEPT ![p] = [NoCtx EXCEPT !.mode = "hook", !.task = input[p].new]]
  /\ last' = [last EXCEPT ![p] = NoLast]
  /\ UNCHANGED << now, events, nextId, runs, sweepFile, indexFile, input, table, idx, swept, obs >>
  /\ UNCHANGED colorVars

\* ------------------------------------------------------------- SyncEvent
\* What main does when SyncEvent returns: the sweep loop logs an error and
\* goes on; the hook updates the schedule only when there was no error.
SyncReturn(p, err, summary) ==
  /\ last' = [last EXCEPT ![p] = [summary EXCEPT !.valid = TRUE, !.err = err,
                                                 !.task = ctx[p].task.uuid]]
  /\ pc' = [pc EXCEPT ![p] = IF ctx[p].mode = "sweep" THEN "sweepNext" ELSE "finish"]
  /\ IF ctx[p].mode = "hook" /\ ~err /\ table[p].ok
     THEN \E es \in TableUpdate(table[p].entries, ctx[p].task) : SetEntries(p, es)
     ELSE IF ctx[p].mode = "sweep" /\ ~err
     THEN /\ obs' = [obs EXCEPT ![p].resynced = @ \cup {ctx[p].task.uuid}]
          /\ table' = table
     ELSE UNCHANGED << table, obs >>

\* SyncEvent, lines 27-52: materialize the target, then resolve the existing
\* event through the index (Events.Get) and, failing that, the search.
SyncResolve(p) ==
  /\ pc[p] = "resolve"
  /\ LET conv == ConvertTaskToCalendarEvent(ctx[p].task, now)
         eventID == IF idx[p].ok THEN IndexGet(idx[p], ctx[p].task.uuid) ELSE 0
     IN IF ~conv.ok
        THEN /\ SyncReturn(p, TRUE, NoLast)
             /\ ctx' = ctx
        ELSE \E getOk \in BOOLEAN, searchOk \in BOOLEAN :
               LET byIndex == IF eventID # 0 /\ getOk THEN EventsGet(eventID) ELSE {}
               IN IF byIndex # {}
                  THEN /\ ctx' = [ctx EXCEPT ![p].existing = byIndex, ![p].target = conv.event]
                       /\ pc' = [pc EXCEPT ![p] = "write"]
                       /\ UNCHANGED << last, table, obs >>
                  ELSE IF ~searchOk
                  THEN /\ SyncReturn(p, TRUE, NoLast)
                       /\ ctx' = ctx
                  ELSE \E found \in GetEventByTaskID(ctx[p].task.uuid) :
                         /\ ctx' = [ctx EXCEPT ![p].existing = found, ![p].target = conv.event]
                         /\ pc' = [pc EXCEPT ![p] = "write"]
                         /\ UNCHANGED << last, table, obs >>
  /\ UNCHANGED << now, events, nextId, runs, sweepFile, indexFile, input, idx, swept, action >>
  /\ UNCHANGED colorVars

\* SyncEvent, lines 54-69: an event exists
SyncExisting(p) ==
  /\ pc[p] = "write"
  /\ ctx[p].existing # {}
  /\ LET e == CHOOSE x \in ctx[p].existing : TRUE
         nu == EventNeedsUpdate(e.ev, ctx[p].target)
         sum == [NoLast EXCEPT !.resolved = "found", !.event = e.id]
     IN IF nu.err
        THEN /\ SyncReturn(p, TRUE, sum)
             /\ UNCHANGED << events, idx >>
        ELSE IF nu.patch = {}
        THEN /\ SyncReturn(p, FALSE, sum)
             /\ UNCHANGED << events, idx >>
        ELSE \E ok \in BOOLEAN :
               IF ok /\ EventsGet(e.id) # {}
               THEN /\ events' = { IF x.id = e.id
                                   THEN RemoteEvent(x.id, ApplyPatch(x.ev, ctx[p].target, nu.patch))
                                   ELSE x : x \in events }
                    /\ idx' = [idx EXCEPT ![p] = IF @.ok THEN IndexSet(@, ctx[p].task.uuid, e.id) ELSE @]
                    /\ SyncReturn(p, FALSE, [sum EXCEPT !.patches = 1])
               ELSE /\ SyncReturn(p, TRUE, [sum EXCEPT !.patches = 1])
                    /\ UNCHANGED << events, idx >>
  /\ UNCHANGED << now, nextId, runs, sweepFile, indexFile, input, swept, action, ctx >>
  /\ UNCHANGED colorVars

\* SyncEvent, lines 71-75: no event exists -> Events.Insert
SyncCreate(p) ==
  /\ pc[p] = "write"
  /\ ctx[p].existing = {}
  /\ \E ok \in BOOLEAN :
       IF ok /\ nextId < MaxEvents
       THEN /\ nextId' = nextId + 1
            /\ events' = events \cup { RemoteEvent(nextId + 1, ctx[p].target) }
            /\ idx' = [idx EXCEPT ![p] = IF @.ok THEN IndexSet(@, ctx[p].task.uuid, nextId + 1) ELSE @]
            /\ SyncReturn(p, FALSE, [NoLast EXCEPT !.resolved = "none", !.creates = 1,
                                                     !.event = nextId + 1])
       ELSE /\ SyncReturn(p, TRUE, [NoLast EXCEPT !.resolved = "none", !.creates = 1])
            /\ UNCHANGED << events, nextId, idx >>
  /\ UNCHANGED << now, runs, sweepFile, indexFile, input, swept, action, ctx >>
  /\ UNCHANGED colorVars

\* ---------------------------------------------------------- delete action
\* main, lines 261-265 and 272-274: GetEventByTaskID; an error ends the
\* invocation, no event goes straight to sweepTable.Remove.
DeleteFind(p) ==
  /\ pc[p] = "delFind"
  /\ \E searchOk \in BOOLEAN :
       IF ~searchOk
       THEN /\ pc' = [pc EXCEPT ![p] = "finish"]
            /\ obs' = [obs EXCEPT ![p].del = "lookupFailed"]
            /\ UNCHANGED << ctx, table >>
       ELSE \E found \in GetEventByTaskID(ctx[p].task.uuid) :
              IF found = {}
              THEN LET es == TableRemove(table[p].entries, ctx[p].task.uuid)
                   IN /\ pc' = [pc EXCEPT ![p] = "finish"]
                      /\ table' = [table EXCEPT ![p].entries = es]
                      /\ obs' = [obs EXCEPT ![p].del = "noEvent",
                                            ![p].tableChanged = @ \/ es # table[p].entries]
                      /\ ctx' = ctx
              ELSE /\ pc' = [pc EXCEPT ![p] = "delWrite"]
                   /\ ctx' = [ctx EXCEPT ![p].existing = found]
                   /\ UNCHANGED << table, obs >>
  /\ UNCHANGED << now, events, nextId, runs, sweepFile, indexFile, input, idx, swept, action, last >>
  /\ UNCHANGED colorVars

\* main, lines 266-274: DeleteEvent (an error is logged), sweepTable.Remove
DeleteWrite(p) ==
  /\ pc[p] = "delWrite"
  /\ LET e == CHOOSE x \in ctx[p].existing : TRUE
         es == TableRemove(table[p].entries, ctx[p].task.uuid)
     IN /\ \E ok \in BOOLEAN :
             IF ok /\ EventsGet(e.id) # {}
             THEN /\ events' = { x \in events : x.id # e.id }
                  /\ obs' = [obs EXCEPT ![p].del = "deleted",
                                        ![p].tableChanged = @ \/ es # table[p].entries]
             ELSE /\ events' = events
                  /\ obs' = [obs EXCEPT ![p].del = "deleteFailed",
                                        ![p].tableChanged = @ \/ es # table[p].entries]
        /\ table' = [table EXCEPT ![p].entries = es]
  /\ pc' = [pc EXCEPT ![p] = "finish"]
  /\ UNCHANGED << now, nextId, runs, sweepFile, indexFile, input, idx, swept, action, ctx, last >>
  /\ UNCHANGED colorVars

\* ------------------------------------------------------- end of invocation
\* The snapshot the deferred function encodes to stdout: twTasks[len - 1]
LastSnapshot(p) == IF input[p].n > 0 THEN << input[p].new >> ELSE << >>

\* An end of invocation that prints the snapshot only when the schedule file
\* could be opened for the save.
Finish_PrintsOnSave(p) ==
  /\ pc[p] = "finish"
  /\ \E createOk \in BOOLEAN :
       IF table[p].ok /\ createOk
       THEN /\ sweepFile' = [whole |-> FALSE, doc |-> << >>]
            /\ pc' = [pc EXCEPT ![p] = "encode"]
            /\ obs' = [obs EXCEPT ![p].outputs = @ + (IF input[p].n > 0 THEN 1 ELSE 0),
                                  ![p].printed = @ \o LastSnapshot(p),
                                  ![p].sweepWrites = @ + 1]
       ELSE /\ sweepFile' = sweepFile
            /\ pc' = [pc EXCEPT ![p] = "flush"]
            /\ obs' = obs
  /\ UNCHANGED << now, events, nextId, runs, indexFile, input, table, idx, swept, action, ctx, last >>
  /\ UNCHANGED colorVars

\* main, deferred function (lines 136-149): the last snapshot goes to stdout,
\* then sweepTable.Save: MkdirAll / os.Create (which truncates the file).
Finish(p) ==
  /\ pc[p] = "finish"
  /\ \E createOk \in BOOLEAN :
       IF table[p].ok /\ createOk
       THEN /\ sweepFile' = [whole |-> FALSE, doc |-> << >>]
            /\ pc' = [pc EXCEPT ![p] = "encode"]
            /\ obs' = [obs EXCEPT ![p].outputs = @ + (IF input[p].n > 0 THEN 1 ELSE 0),
                                  ![p].printed = @ \o LastSnapshot(p),
                                  ![p].sweepWrites = @ + 1]
       ELSE /\ sweepFile' = sweepFile
            /\ pc' = [pc EXCEPT ![p] = "flush"]
            /\ obs' = [obs EXCEPT ![p].outputs = @ + (IF input[p].n > 0 THEN 1 ELSE 0),
                                  ![p].printed = @ \o LastSnapshot(p)]
  /\ UNCHANGED << now, events, nextId, runs, indexFile, input, table, idx, swept, action, ctx, last >>
  /\ UNCHANGED colorVars

\* Table.Save: encoder.Encode(t) writes the document, or fails part-way
SaveEncode(p) ==
  /\ pc[p] = "encode"
  /\ \E ok \in BOOLEAN :
       sweepFile' = IF ok THEN [whole |-> TRUE, doc |-> table[p].entries]
                    ELSE [whole |-> FALSE, doc |-> << >>]
  /\ pc' = [pc EXCEPT ![p] = "flush"]
  /\ UNCHANGED << now, events, nextId, runs, indexFile, input, table, idx, swept, action,
                  ctx, last, obs >>
  /\ UNCHANGED colorVars

\* A save that writes whether or not the index is dirty.
SaveIndex_Ungated(p) ==
  /\ \E createOk \in BOOLEAN :
       IF idx[p].ok /\ createOk
       THEN /\ indexFile' = [whole |-> FALSE, doc |-> {}]
            /\ pc' = [pc EXCEPT ![p] = "idxEncode"]
            /\ obs' = [obs EXCEPT ![p].indexWrites = @ + 1,
                                  ![p].indexChanged =
                                    EncodeMappings(idx[p].mappings) # indexFile.doc]
       ELSE /\ indexFile' = indexFile
            /\ pc' = [pc EXCEPT ![p] = "done"]
            /\ obs' = obs
  /\ UNCHANGED << now, events, nextId, runs, sweepFile, input, table, idx, swept, action, ctx, last >>
  /\ UNCHANGED colorVars

\* EventIndex.Save, lines 48-66: nothing to do unless dirty; MkdirAll /
\* os.Create (which truncates the file).
SaveIndex(p) ==
  /\ \E createOk \in BOOLEAN :
       IF idx[p].ok /\ idx[p].dirty /\ createOk
       THEN /\ indexFile' = [whole |-> FALSE, doc |-> {}]
            /\ pc' = [pc EXCEPT ![p] = "idxEncode"]
            /\ obs' = [obs EXCEPT ![p].indexWrites = @ + 1,
                                  ![p].indexChanged =
                                    EncodeMappings(idx[p].mappings) # indexFile.doc]
       ELSE /\ indexFile' = indexFile
            /\ pc' = [pc EXCEPT ![p] = "done"]
            /\ obs' = obs
  /\ UNCHANGED << now, events, nextId, runs, sweepFile, input, table, idx, swept, action, ctx, last >>
  /\ UNCHANGED colorVars

\* The flush of the index at the end of an invocation
FlushIndex(p) ==
  /\ pc[p] = "flush"
  /\ SaveIndex(p)

\* EventIndex.Save, lines 69-73: Encode(idx.Mappings), then dirty = false
IndexEncode(p) ==
  /\ pc[p] = "idxEncode"
  /\ \E ok \in BOOLEAN :
       IF ok
       THEN /\ indexFile' = [whole |-> TRUE, doc |-> EncodeMappings(idx[p].mappings)]
            /\ idx' = [idx EXCEPT ![p].dirty = FALSE]
       ELSE /\ indexFile' = [whole |-> FALSE, doc |-> {}]
            /\ idx' = idx
  /\ pc' = [pc EXCEPT ![p] = "done"]
  /\ UNCHANGED << now, events, nextId, runs, sweepFile, input, table, swept, action, ctx, last, obs >>
  /\ UNCHANGED colorVars

\* Time passes.
Tick ==
  /\ now <= MaxTime
  /\ now' = now + 1
  /\ UNCHANGED << events, nextId, runs, sweepFile, indexFile, pc, input, table, idx,
                  swept, action, ctx, last, obs >>
  /\ UNCHANGED colorVars

Step(p) ==
  \/ RunSweep(p) \/ SweepSkip(p) \/ SweepFetch(p) \/ SweepDone(p)
  \/ HookNone(p) \/ HookDecide(p)
  \/ SyncResolve(p) \/ SyncExisting(p) \/ SyncCreate(p)
  \/ DeleteFind(p) \/ DeleteWrite(p)
  \/ Finish(p) \/ SaveEncode(p) \/ FlushIndex(p) \/ IndexEncode(p)

\* Invocations one after another: a single hook process at a time.
Next == Start(1) \/ Step(1) \/ Tick

Spec == Init /\ [][Next]_vars

\* Invocations that may overlap: two hook processes interleave.
\* The hook fires again and again for one pending task that has a due time
\* and no scheduled time, and an invocation may start while an earlier one
\* still runs; a third invocation can follow the pair.  With these snapshots
\* the schedule stays empty and the action is always sync, so the steps of
\* the sweep loop and of the delete action are never enabled.
OverlapSnapshots == { ZeroSnapshot, Task(1, "pending", FALSE, 0, 1, 0, 0, 0, 0) }

StartOverlap(p) == StartWith(p, OverlapSnapshots, MaxRuns + 1)

StepOverlap(p) ==
  \/ RunSweep(p) \/ SweepDone(p) \/ HookNone(p) \/ HookDecide(p)
  \/ SyncResolve(p) \/ SyncExisting(p) \/ SyncCreate(p)
  \/ Finish(p) \/ SaveEncode(p) \/ FlushIndex(p) \/ IndexEncode(p)

NextOverlap == \E p \in Procs : StartOverlap(p) \/ StepOverlap(p)

SpecOverlap == Init /\ [][NextOverlap]_vars

\* ------------------------------------------------- the schedule on its own
\* The operations of Table applied in any order to the table of process 1,
\* from the empty table, over task ids 1..NumScheduled and times 1..Horizon.
ScheduleTasks == 1..NumScheduled

nonTableVars ==
  << events, nextId, runs, sweepFile, indexFile, pc, input, idx, action, ctx, last, obs >>

\* Table.Update(task)
ScheduleUpdate ==
  /\ \E u \in ScheduleTasks, st \in Statuses, sc \in 0..Horizon :
       \E es \in TableUpdate(table[1].entries, Task(u, st, FALSE, sc, 0, 0, 0, 0, 0)) :
         table' = [table EXCEPT ![1].entries = es]
  /\ UNCHANGED << now, swept, nonTableVars, colorVars >>

\* Table.Remove(uuid)
ScheduleRemove ==
  /\ \E u \in ScheduleTasks :
       table' = [table EXCEPT ![1].entries = TableRemove(table[1].entries, u)]
  /\ UNCHANGED << now, swept, nonTableVars, colorVars >>

\* swept := Table.Sweep(time.Now())
ScheduleSweep ==
  /\ LET r == TableSweep(table[1].entries, now)
     IN /\ swept' = [swept EXCEPT ![1] = r.swept]
        /\ table' = [table EXCEPT ![1].entries = r.rest]
  /\ UNCHANGED << now, nonTableVars, colorVars >>

\* The clock, up to one step past the latest scheduled time
ScheduleTick ==
  /\ now <= Horizon
  /\ now' = now + 1
  /\ UNCHANGED << table, swept, nonTableVars, colorVars >>

NextSchedule == ScheduleUpdate \/ ScheduleRemove \/ ScheduleSweep \/ ScheduleTick
InitSchedule == Init /\ colorFile.whole
SpecSchedule == InitSchedule /\ [][NextSchedule]_vars

\* --------------------------------------------------- the index on its own
\* The operations of EventIndex applied in any order to the index of process
\* 1, from the index of a missing events.json.
nonIndexVars ==
  << now, events, nextId, runs, sweepFile, input, table, swept, action, ctx, last >>

\* EventIndex.Set(taskID, eventID)
IndexRecord ==
  /\ ~Running(1) /\ idx[1].ok
  /\ \E t \in Tasks, e \in EventIds : idx' = [idx EXCEPT ![1] = IndexSet(@, t, e)]
  /\ UNCHANGED << indexFile, pc, obs, nonIndexVars, colorVars >>

\* EventIndex.Remove(taskID)
IndexForget ==
  /\ ~Running(1) /\ idx[1].ok
  /\ \E t \in Tasks : idx' = [idx EXCEPT ![1] = IndexRemove(@, t)]
  /\ UNCHANGED << indexFile, pc, obs, nonIndexVars, colorVars >>

\* EventIndex.Save()
IndexSave ==
  /\ ~Running(1) /\ idx[1].ok
  /\ obs[1].indexWrites < MaxSaves
  /\ SaveIndex(1)

\* NewEventIndex() in a later invocation
IndexLoad ==
  /\ ~Running(1)
  /\ idx' = [idx EXCEPT ![1] = NewEventIndex]
  /\ UNCHANGED << indexFile, pc, obs, nonIndexVars, colorVars >>

NextIndex == IndexRecord \/ IndexForget \/ IndexSave \/ IndexEncode(1) \/ IndexLoad
InitIndex == Init /\ colorFile.whole
SpecIndex == InitIndex /\ [][NextIndex]_vars

\* ------------------------------------- one EventIndex shared by goroutines
\* The goroutines Procs call Get, Set, Remove and Save on the index idx[1].
\* pc[g] is where goroutine g stands: "idle" between calls, "saveWait" after
\* Save read dirty under the read lock and released it, "locked" while Save
\* holds the write lock with the file created and not yet encoded.  Get, Set
\* and Remove run under the lock from beginning to end and are one step.
Locked == \E g \in Procs : pc[g] = "locked"

sharedVars ==
  << now, events, nextId, runs, sweepFile, input, table, swept, action, ctx >>

\* EventIndex.Get, lines 76-80
GoGet(g) ==
  /\ pc[g] = "idle" /\ ~Locked
  /\ \E t \in Tasks :
       last' = [last EXCEPT ![g] = [NoLast EXCEPT !.valid = TRUE, !.task = t,
                                                  !.event = IndexGet(idx[1], t)]]
  /\ UNCHANGED << indexFile, pc, idx, obs, sharedVars, colorVars >>

\* EventIndex.Set, lines 82-89
GoSet(g) ==
  /\ pc[g] = "idle" /\ ~Locked
  /\ \E t \in Tasks, e \in EventIds : idx' = [idx EXCEPT ![1] = IndexSet(@, t, e)]
  /\ UNCHANGED << indexFile, pc, last, obs, sharedVars, colorVars >>

\* EventIndex.Remove, lines 91-98
GoRemove(g) ==
  /\ pc[g] = "idle" /\ ~Locked
  /\ \E t \in Tasks : idx' = [idx EXCEPT ![1] = IndexRemove(@, t)]
  /\ UNCHANGED << indexFile, pc, last, obs, sharedVars, colorVars >>

\* EventIndex.Save, lines 48-53: RLock, read dirty, RUnlock; a clean index
\* returns at once
GoSaveDirty(g) ==
  /\ pc[g] = "idle" /\ ~Locked
  /\ idx[1].dirty
  /\ pc' = [pc EXCEPT ![g] = "saveWait"]
  /\ UNCHANGED << indexFile, idx, last, obs, sharedVars, colorVars >>

\* EventIndex.Save, lines 55-67: Lock, MkdirAll, os.Create (which truncates
\* the file); an error returns and unlocks
GoSaveLock(g) ==
  /\ pc[g] = "saveWait" /\ ~Locked
  /\ \E createOk \in BOOLEAN :
       IF createOk
       THEN /\ indexFile' = [whole |-> FALSE, doc |-> {}]
            /\ pc' = [pc EXCEPT ![g] = "locked"]
            /\ obs' = [obs EXCEPT ![g].indexWrites = @ + 1]
       ELSE /\ indexFile' = indexFile
            /\ pc' = [pc EXCEPT ![g] = "idle"]
            /\ obs' = obs
  /\ obs[g].indexWrites < MaxSaves
  /\ UNCHANGED << idx, last, sharedVars, colorVars >>

\* EventIndex.Save, lines 69-73: Encode(idx.Mappings), then dirty = false;
\* the deferred Unlock
GoSaveEncode(g) ==
  /\ pc[g] = "locked"
  /\ \E ok \in BOOLEAN :
       IF ok
       THEN /\ indexFile' = [whole |-> TRUE, doc |-> EncodeMappings(idx[1].mappings)]
            /\ idx' = [idx EXCEPT ![1].dirty = FALSE]
       ELSE /\ indexFile' = [whole |-> FALSE, doc |-> {}]
            /\ idx' = idx
  /\ pc' = [pc EXCEPT ![g] = "idle"]
  /\ UNCHANGED << last, obs, sharedVars, colorVars >>

NextGoroutines ==
  \E g \in Procs :
    GoGet(g) \/ GoSet(g) \/ GoRemove(g) \/ GoSaveDirty(g) \/ GoSaveLock(g) \/ GoSaveEncode(g)

InitGoroutines == Init /\ colorFile.whole
SpecGoroutines == InitGoroutines /\ [][NextGoroutines]_vars

\* ------------------------------------------ the patch generator on its own
\* SyncEvent at the point where an existing event was found (part_005, line
\* 54), for any existing event and any target: fields that agree or differ,
\* timestamps of the same instant written with another zone offset, and
\* timestamps that do not parse (an all-day event has an empty dateTime).
PatchTask == Task(1, "pending", FALSE, 1, 0, 0, 0, 0, 0)

StartStamps ==
  { FormatRFC3339(1), << "dateTime", 1, "+01:00" >>, FormatRFC3339(2), << "date", 1 >> }

EndStamps ==
  { FormatRFC3339(31), << "dateTime", 31, "+01:00" >>, FormatRFC3339(32), << "date", 1 >> }

PatchEvents ==
  { [summary |-> su, description |-> DescriptionText(d), colorId |-> co,
     start |-> st, end |-> en, taskwarrior_id |-> 1] :
      su \in {"plain", "overdue"},
      d \in { PatchTask, [PatchTask EXCEPT !.status = "completed"] },
      co \in {GrayColor, LavenderColor},
      st \in StartStamps,
      en \in EndStamps }

InitPatch ==
  /\ now = 1
  /\ nextId = 1
  /\ runs = 1
  /\ sweepFile = [whole |-> TRUE, doc |-> << >>]
  /\ colorFile = [whole |-> TRUE, doc |-> EmptyProjects]
  /\ cache = [projects |-> EmptyProjects, dirty |-> FALSE]
  /\ call = NoCall
  /\ pc = [p \in Procs |-> IF p = 1 THEN "write" ELSE "idle"]
  /\ input = [p \in Procs |-> IF p = 1 THEN [n |-> 1, new |-> PatchTask]
                                         ELSE [n |-> 0, new |-> ZeroSnapshot]]
  /\ table = [p \in Procs |-> [ok |-> TRUE, entries |-> << >>]]
  /\ swept = [p \in Procs |-> << >>]
  /\ action = [p \in Procs |-> IF p = 1 THEN "sync" ELSE "none"]
  /\ last = [p \in Procs |-> NoLast]
  /\ obs = [p \in Procs |-> NoObs]
  /\ \E e \in PatchEvents, t \in PatchEvents, known \in BOOLEAN :
       /\ events = { RemoteEvent(1, e) }
       /\ ctx = [p \in Procs |->
                   IF p = 1 THEN [mode |-> "hook", task |-> PatchTask,
                                  existing |-> { RemoteEvent(1, e) }, target |-> t]
                   ELSE NoCtx]
       /\ LET m == IF known THEN [EmptyMappings EXCEPT ![1] = 1] ELSE EmptyMappings
          IN /\ idx = [p \in Procs |-> [ok |-> TRUE, dirty |-> FALSE,
                                         mappings |-> IF p = 1 THEN m ELSE EmptyMappings]]
             /\ indexFile = [whole |-> TRUE, doc |-> EncodeMappings(m)]

NextPatch == SyncExisting(1)
SpecPatch == InitPatch /\ [][NextPatch]_vars

\* ------------------------------------------- the materializer in SyncEvent
\* SyncEvent on snapshots that carry every field the materializer reads:
\* any status, scheduled, due, start and end times, estimate and actual
\* duration, and a project name.
MaterializeTasks ==
  { [Task(1, st, FALSE, sc, du, sta, en, es, ac) EXCEPT !.project = pr] :
      st \in Statuses, sc \in {0, 1}, du \in {0, 1}, sta \in {0, 3}, en \in {0, 90},
      es \in {0, 60}, ac \in {0, 45}, pr \in 0..NumNamedProjects }

InitMaterialize ==
  /\ now = 1
  /\ events = {}
  /\ nextId = 0
  /\ runs = 1
  /\ sweepFile = [whole |-> TRUE, doc |-> << >>]
  /\ indexFile = [whole |-> TRUE, doc |-> EncodeMappings(EmptyMappings)]
  /\ colorFile = [whole |-> TRUE, doc |-> EmptyProjects]
  /\ cache = [projects |-> EmptyProjects, dirty |-> FALSE]
  /\ call = NoCall
  /\ pc = [p \in Procs |-> IF p = 1 THEN "resolve" ELSE "idle"]
  /\ table = [p \in Procs |-> [ok |-> TRUE, entries |-> << >>]]
  /\ idx = [p \in Procs |-> [ok |-> TRUE, mappings |-> EmptyMappings, dirty |-> FALSE]]
  /\ swept = [p \in Procs |-> << >>]
  /\ action = [p \in Procs |-> IF p = 1 THEN "sync" ELSE "none"]
  /\ last = [p \in Procs |-> NoLast]
  /\ obs = [p \in Procs |-> NoObs]
  /\ \E task \in MaterializeTasks :
       /\ input = [p \in Procs |-> IF p = 1 THEN [n |-> 1, new |-> task]
                                              ELSE [n |-> 0, new |-> ZeroSnapshot]]
       /\ ctx = [p \in Procs |->
                   IF p = 1 THEN [mode |-> "hook", task |-> task,
                                  existing |-> {}, target |-> NoEvent]
                   ELSE NoCtx]

\* main, lines 201-216 and 276-282: SyncEvent is called again for a task it
\* has synced (a swept task that is also the hook's task), on the same client.
SyncAgain ==
  /\ pc[1] = "finish"
  /\ runs < MaxSyncs
  /\ last[1].valid /\ ~last[1].err
  /\ runs' = runs + 1
  /\ pc' = [pc EXCEPT ![1] = "resolve"]
  /\ ctx' = [ctx EXCEPT ![1] = [mode |-> "hook", task |-> ctx[1].task,
                                existing |-> {}, target |-> NoEvent]]
  /\ last' = [last EXCEPT ![1] = NoLast]
  /\ UNCHANGED << now, events, nextId, sweepFile, indexFile, input, table, idx, swept,
                  action, obs >>
  /\ UNCHANGED colorVars

NextMaterialize ==
  SyncResolve(1) \/ SyncCreate(1) \/ SyncExisting(1) \/ SyncAgain \/ Tick

SpecMaterialize == InitMaterialize /\ [][NextMaterialize]_vars

\* ------------------------------------------------ the color cache in use
hookVars == << events, nextId, runs, sweepFile, indexFile, pc, input, table, idx,
               swept, action, ctx, last, obs >>

\* One GetColorID call on a cache that lives on between the calls.  Project
\* names are numbered in the order of their first request (the code never
\* looks into a name), and an evicting call is counted.
ColorCall ==
  /\ \E project \in 0..NumProjects, isTaskActive \in BOOLEAN :
       /\ project <= Cardinality(Present(cache.projects)) + call.evictions + 1
       /\ \E r \in GetColorID(cache, project, isTaskActive, now) :
            /\ r.evicted # 0 => call.evictions < MaxEvictions
            /\ cache' = r.cache
            /\ call' = [project |-> project, ret |-> r.ret, evicted |-> r.evicted,
                        evictions |-> call.evictions + (IF r.evicted # 0 THEN 1 ELSE 0)]
  /\ UNCHANGED << now, hookVars, colorFile >>

NextColors == ColorCall \/ Tick

\* The calls start from an empty cache; project_colors.json plays no part.
InitColors == Init /\ colorFile.whole

SpecColors == InitColors /\ [][NextColors]_vars

\* ------------------------------------------------------------------ claims
HookPhase(p) ==
  \/ pc[p] \in {"hook", "delFind", "delWrite"}
  \/ pc[p] \in {"resolve", "write"} /\ ctx[p].mode = "hook"

Ended(p) == pc[p] \in {"finish", "encode", "flush", "idxEncode", "done"}

HasEntry(entries, uuid) == \E i \in 1..Len(entries) : entries[i].uuid = uuid

HookTask(p) == input[p].new.uuid

\* The hook's SyncEvent call returned without error.
HookSynced(p) ==
  /\ Ended(p) /\ action[p] = "sync" /\ ctx[p].mode = "hook"
  /\ last[p].valid /\ ~last[p].err

\* C1: the action main chooses depends on the parsed snapshots only: one
\* snapshot is a sync; for an (old, new) pair it is delete exactly when the new
\* snapshot's status is deleted or waiting or it carries the BLOCKED tag, and
\* sync otherwise; the delete and sync code paths are entered accordingly.
C1_ActionFromSnapshots ==
  \A p \in Procs :
    /\ action[p] # "none" =>
         action[p] = IF input[p].n = 1 THEN "sync"
                     ELSE IF input[p].new.status \in {"deleted", "waiting"}
                             \/ input[p].new.blocked
                          THEN "delete" ELSE "sync"
    /\ pc[p] \in {"delFind", "delWrite"} => action[p] = "delete"
    /\ (pc[p] \in {"resolve", "write"} /\ ctx[p].mode = "hook") => action[p] = "sync"

C1_Witness ==
  \E p \in Procs :
    /\ pc[p] = "delFind" /\ input[p].n = 2
    /\ input[p].new.status = "deleted" /\ ~input[p].new.blocked

\* C2: when the action is delete and the remote step did not fail (the event
\* was deleted, or there was none), the invocation ends with no Identity Index
\* entry and no Sweep Schedule entry for the task.
C2_DeleteForgetsTask ==
  \A p \in Procs :
    (pc[p] = "done" /\ action[p] = "delete" /\ obs[p].del \in {"deleted", "noEvent"})
      => /\ idx[p].ok => IndexGet(idx[p], HookTask(p)) = 0
         /\ table[p].ok => ~HasEntry(table[p].entries, HookTask(p))

\* C3: a SyncEvent call that finds no event issues exactly one create and, when
\* the create succeeds, the index maps the task to the created event; a call
\* that finds an event issues no create, and issues a patch exactly when the
\* event found differs from the target; a call that fails before the lookup is
\* over issues no remote write.
C3_SyncWrites ==
  \A p \in Procs :
    last[p].valid =>
      /\ last[p].resolved = "none" =>
           /\ last[p].creates = 1 /\ last[p].patches = 0
           /\ ~last[p].err =>
                /\ last[p].event # 0
                /\ idx[p].ok => IndexGet(idx[p], last[p].task) = last[p].event
                /\ \E e \in EventsGet(last[p].event) : e.ev = ctx[p].target
      /\ last[p].resolved = "found" =>
           /\ last[p].creates = 0
           /\ last[p].patches = 1 <=>
                (\E e \in ctx[p].existing : e.ev # ctx[p].target)
           /\ (last[p].patches = 1 /\ ~last[p].err) =>
                \E e \in EventsGet(last[p].event) : e.ev = ctx[p].target
      /\ last[p].resolved = "error" => last[p].creates = 0 /\ last[p].patches = 0

C3_Witness ==
  \E p \in Procs :
    /\ last[p].valid /\ ~last[p].err /\ last[p].resolved = "found"
    /\ last[p].patches = 1 /\ runs = 2
    /\ \E e \in EventsGet(last[p].event) : e.ev = ctx[p].target

\* C4: after a successful SyncEvent call the index entry of the task names the
\* event the call resolved or created, on the patch path, the create path and
\* the no-change path alike.
C4_IndexNamesSyncedEvent ==
  \A p \in Procs :
    (last[p].valid /\ ~last[p].err /\ idx[p].ok)
      => IndexGet(idx[p], last[p].task) = last[p].event

\* C5: with invocations that do not overlap, the calendar holds at most one
\* event per task identifier and the index names at most that event; a create
\* is issued only when neither the index nor the search found an event.
C5_OneEventPerTask ==
  /\ \A t \in Tasks : Cardinality(EventsOfTask(t)) <= 1
  /\ \A p \in Procs :
       (last[p].valid /\ last[p].creates = 1) =>
         /\ last[p].resolved = "none"
         /\ \A e \in EventsOfTask(last[p].task) : e.id = last[p].event

C5_Witness ==
  \E p \in Procs :
    /\ runs = 2 /\ last[p].valid /\ ~last[p].err /\ last[p].resolved = "found"
    /\ idx[p].ok /\ IndexGet(idx[p], last[p].task) = 0
    /\ Cardinality(EventsOfTask(last[p].task)) = 1

\* C6: when a remote lookup or write fails, the cache updates that depend on it
\* are skipped: a failed delete or a failed lookup of the delete action leaves
\* the schedule and the index as they were, and a failed SyncEvent leaves them
\* as they were.
C6_FailureSkipsCacheUpdates ==
  [][ \A p \in Procs :
        \/ (pc[p] \in {"delFind", "delWrite"}
              /\ obs'[p].del \in {"deleteFailed", "lookupFailed"})
        \/ (pc[p] \in {"resolve", "write"} /\ last'[p].valid /\ last'[p].err)
        => table'[p] = table[p] /\ idx'[p] = idx[p] ]_vars

\* C7 (as claimed): once the hook's own task is being processed, the schedule
\* the sweep pass produced is already persisted.
C7_SweepPersistedBeforeHook ==
  \A p \in Procs :
    (HookPhase(p) /\ table[p].ok)
      => sweepFile.whole /\ sweepFile.doc = table[p].entries

\* C7 (amended): the sweep pass is over before the hook's own task is
\* processed, the schedule is written only afterwards by the deferred save,
\* and a task that was swept and re-synced and is then synced as the hook's
\* own task has its schedule entry set by that sync.
C7_SweepBeforeHookSaveAtEnd ==
  \A p \in Procs :
    /\ HookPhase(p) => swept[p] = << >> /\ obs[p].sweepWrites = 0
    /\ obs[p].resynced \subseteq obs[p].sweptTasks
    /\ (HookSynced(p) /\ table[p].ok /\ HookTask(p) \in obs[p].sweptTasks) =>
         (HasEntry(table[p].entries, HookTask(p))
            <=> (input[p].new.status = "pending" /\ input[p].new.scheduled # 0))

C7_Witness ==
  \E p \in Procs :
    /\ HookSynced(p) /\ table[p].ok
    /\ HookTask(p) \in obs[p].resynced
    /\ HasEntry(table[p].entries, HookTask(p))
    /\ obs[p].sweepWrites = 1

\* C8: each cache file is written at most once per invocation and only if the
\* cache was changed during the invocation.
C8_WriteOnlyIfChanged ==
  \A p \in Procs :
    /\ obs[p].sweepWrites <= 1 /\ obs[p].indexWrites <= 1
    /\ obs[p].sweepWrites = 1 => obs[p].tableChanged
    /\ obs[p].indexWrites = 1 => obs[p].indexChanged

\* C9: a persisted cache file always holds a complete document, and no
\* invocation finds a cache file it cannot decode.
C9_FilesAlwaysWhole ==
  /\ sweepFile.whole /\ indexFile.whole
  /\ \A p \in Procs : Running(p) => table[p].ok /\ idx[p].ok

\* C10: an invocation that overlaps no other and starts with two events of a
\* task on the calendar (left by overlapping invocations), and syncs that task
\* successfully, ends with exactly one event of the task on the calendar and
\* with the index naming that event.
C10_OverlapSelfHeals ==
  \A p \in Procs :
    (pc[p] = "done" /\ obs[p].solo /\ obs[p].duplicates /\ HookSynced(p)
       /\ Cardinality(EventsOfTask(HookTask(p))) > 0)
      => /\ Cardinality(EventsOfTask(HookTask(p))) = 1
         /\ idx[p].ok =>
              \E e \in EventsOfTask(HookTask(p)) : IndexGet(idx[p], HookTask(p)) = e.id

\* The task has no time a calendar event could be placed at.
NoSchedulableTime(task) ==
  /\ task.status # "completed" /\ task.start = 0
  /\ task.scheduled = 0 /\ task.due = 0

\* C11: when the hook's task has no schedulable time, the SyncEvent call ends
\* with an error before any remote call: the calendar, the index and the
\* schedule of the invocation are unchanged, the invocation goes on to its
\* deferred end, and from there the output and the save of the caches run.
C11_NoTimeIsReported ==
  [][ \A p \in Procs :
        /\ (pc[p] = "resolve" /\ ctx[p].mode = "hook" /\ NoSchedulableTime(ctx[p].task)
               /\ pc'[p] # pc[p])
             => /\ events' = events /\ nextId' = nextId
                /\ table'[p] = table[p] /\ idx'[p] = idx[p]
                /\ last'[p].valid /\ last'[p].err
                /\ last'[p].creates = 0 /\ last'[p].patches = 0
                /\ pc'[p] = "finish"
        /\ (pc[p] = "finish" /\ pc'[p] # pc[p])
             => /\ pc'[p] \in {"encode", "flush"}
                /\ obs'[p].outputs = obs[p].outputs + (IF input[p].n > 0 THEN 1 ELSE 0)
                /\ table[p].ok => (pc'[p] = "encode" <=> ~sweepFile'.whole) ]_vars

C11_Witness ==
  \E p \in Procs :
    /\ pc[p] = "done" /\ action[p] = "sync" /\ NoSchedulableTime(input[p].new)
    /\ last[p].valid /\ last[p].err /\ ctx[p].mode = "hook"
    /\ obs[p].sweepWrites = 1 /\ obs[p].outputs = 1
    /\ HasEntry(table[p].entries, HookTask(p))
    /\ EventsOfTask(HookTask(p)) # {}

Saturated(projs) == Used(projs) = 1..PaletteSize

\* The project -> color mapping of a cache
ColorOf(projs) == [pr \in Projects |-> projs[pr].colorId]

\* C13: a GetColorID call for a project without entry on a cache whose palette
\* is fully assigned removes exactly one entry, one with the oldest
\* LastModified, and gives that entry's color to the new project; afterwards
\* the evicted project is absent, the new one present, every other entry as it
\* was and every palette color still assigned.
C13_SaturatedCallEvictsOldest ==
  [][ (cache' # cache /\ Saturated(cache.projects) /\ call'.project # 0
         /\ call'.project \notin Present(cache.projects))
      => LET e == call'.evicted
             pr == call'.project
         IN /\ e \in Present(cache.projects)
            /\ \A q \in Present(cache.projects) :
                 cache.projects[e].lastModified <= cache.projects[q].lastModified
            /\ Present(cache'.projects) = (Present(cache.projects) \ {e}) \cup {pr}
            /\ cache'.projects[pr].colorId = cache.projects[e].colorId
            /\ call'.ret = cache.projects[e].colorId
            /\ \A q \in Projects \ {e, pr} : cache'.projects[q] = cache.projects[q]
            /\ Saturated(cache'.projects) ]_vars

C13_Witness ==
  /\ call.evicted # 0 /\ call.project = PaletteSize + 1
  /\ call.evicted \notin Present(cache.projects)
  /\ cache.projects[call.project].colorId = call.ret
  /\ \E q \in Present(cache.projects) : cache.projects[q].lastModified = 1
  /\ cache.projects[call.project].lastModified = 2

\* C14: in every state reached from an empty cache every entry holds a palette
\* color, no two projects hold the same color, and there are at most
\* PaletteSize entries.
C14_ColorsArePaletteAndUnique ==
  /\ \A pr \in Present(cache.projects) : cache.projects[pr].colorId \in 1..PaletteSize
  /\ \A pr, q \in Present(cache.projects) :
       cache.projects[pr].colorId = cache.projects[q].colorId => pr = q
  /\ Cardinality(Present(cache.projects)) <= PaletteSize

C14_Witness ==
  /\ Cardinality(Present(cache.projects)) = PaletteSize
  /\ call.evictions = 1

\* C15: a GetColorID call for a project that has an entry returns the color of
\* that entry, leaves the project -> color mapping of all projects unchanged,
\* sets the entry's LastModified to now and marks the cache dirty.
C15_ProjectKeepsColor ==
  [][ (call'.project # 0 /\ call'.project \in Present(cache.projects)
         /\ (cache' # cache \/ call' # call))
      => /\ call'.ret = cache.projects[call'.project].colorId
         /\ ColorOf(cache'.projects) = ColorOf(cache.projects)
         /\ cache'.projects[call'.project].lastModified = now
         /\ cache'.dirty
         /\ call'.evicted = 0 ]_vars

C15_Witness ==
  /\ Present(cache.projects) = {1, 2} /\ call.project = 1 /\ call.ret = 1
  /\ cache.projects[1].lastModified = 2 /\ cache.projects[2].lastModified = 1

\* C16: a GetColorID call for a project without entry on a cache with an
\* unassigned palette color gives the project the lowest unassigned color with
\* LastModified = now and removes or changes no other entry.
C16_NewProjectGetsLowestFree ==
  [][ (cache' # cache /\ ~Saturated(cache.projects) /\ call'.project # 0
         /\ call'.project \notin Present(cache.projects))
      => LET pr == call'.project
         IN /\ \A i \in 1..PaletteSize :
                 i < call'.ret => i \in Used(cache.projects)
            /\ call'.ret \in 1..PaletteSize /\ call'.ret \notin Used(cache.projects)
            /\ cache'.projects[pr].colorId = call'.ret
            /\ cache'.projects[pr].lastModified = now
            /\ \A q \in Projects \ {pr} : cache'.projects[q] = cache.projects[q]
            /\ call'.evicted = 0 /\ cache'.dirty ]_vars

C16_Witness ==
  /\ call.project = 3 /\ call.ret = 3 /\ call.evicted = 0
  /\ Present(cache.projects) = {1, 2, 3}
  /\ cache.projects[3].lastModified = 2 /\ cache.projects[1].lastModified = 1

\* C17: GetColorID returns a color in every cache state, for every project and
\* either value of isTaskActive; for a project with a name the color returned
\* is the one the cache holds for the project after the call, also when the
\* call had to evict; for the empty name it is the gray "14".
C17_AlwaysReturnsTheStoredColor ==
  /\ \A pr \in 0..NumProjects, a \in BOOLEAN :
       /\ GetColorID(cache, pr, a, now) # {}
       /\ \A r \in GetColorID(cache, pr, a, now) :
            IF pr = 0 THEN r.ret = GrayColor /\ r.cache = cache
            ELSE r.ret \in 1..PaletteSize /\ r.cache.projects[pr].colorId = r.ret
  /\ call.project # 0 => cache.projects[call.project].colorId = call.ret

C17_Witness ==
  /\ call.evicted # 0 /\ call.ret \in 1..PaletteSize
  /\ cache.projects[call.project].colorId = call.ret
  /\ Saturated(cache.projects)

\* C18: from one cache state the outcome of a GetColorID call for a project
\* without entry is determined: the same project is evicted and the same color
\* returned, also when several entries tie for the oldest LastModified.
C18_EvictionIsDeterministic ==
  \A pr \in Projects \ Present(cache.projects), a \in BOOLEAN :
    Cardinality(GetColorID(cache, pr, a, now)) = 1

\* C19: isTaskActive has no effect: for every cache state and project the
\* possible outcomes of GetColorID (color returned, project evicted, cache
\* afterwards) are the same for true and for false.
C19_ActiveFlagIsIgnored ==
  \A pr \in 0..NumProjects :
    GetColorID(cache, pr, TRUE, now) = GetColorID(cache, pr, FALSE, now)

C19_Witness ==
  /\ call.project = 2 /\ call.ret = 2 /\ cache.dirty
  /\ Present(cache.projects) = {1, 2}
  /\ GetColorID(cache, 3, TRUE, now) # GetColorID(cache, 2, TRUE, now)

\* C20: Table.Sweep(now) returns the task ids of exactly the entries scheduled
\* strictly before now, in ascending scheduled order (they are the front of
\* the table), removes exactly those entries and leaves the others, among them
\* every entry scheduled at now, as they were and in the same order.
C20_SweepTakesTheOverdue ==
  [][ swept'[1] # swept[1]
      => LET es == table[1].entries
             due == { i \in 1..Len(es) : es[i].scheduled < now }
             k == Cardinality(due)
         IN /\ due = 1..k
            /\ swept'[1] = [i \in 1..k |-> es[i].uuid]
            /\ \A i, j \in 1..k : i < j => es[i].scheduled <= es[j].scheduled
            /\ table'[1].entries = SubSeq(es, k + 1, Len(es))
            /\ \A i \in 1..Len(es) :
                 es[i].scheduled = now
                   => \E m \in 1..Len(table'[1].entries) : table'[1].entries[m] = es[i] ]_vars

C20_Witness ==
  /\ Len(swept[1]) = 2 /\ swept[1][1] # swept[1][2]
  /\ Len(table[1].entries) = 1
  /\ table[1].entries[1].scheduled = now
  /\ table[1].entries[1].uuid \notin { swept[1][1], swept[1][2] }

\* C21: a second Sweep(t) directly after a Sweep(t) returns nothing and leaves
\* the table as it is: for the table and clock of every state, and for the
\* table a sweep step has just left.
C21_SecondSweepIsEmpty ==
  [][ /\ LET r == TableSweep(table[1].entries, now)
             again == TableSweep(r.rest, now)
         IN again.swept = << >> /\ again.rest = r.rest
      /\ swept'[1] # swept[1]
           => LET again == TableSweep(table'[1].entries, now')
              IN again.swept = << >> /\ again.rest = table'[1].entries ]_vars

C21_Witness ==
  /\ Len(swept[1]) = 1
  /\ Len(table[1].entries) = 2
  /\ table[1].entries[1].scheduled = now
  /\ swept[1][1] \notin { table[1].entries[1].uuid, table[1].entries[2].uuid }
  /\ TableSweep(table[1].entries, now).swept = << >>

\* C22: after any sequence of Update, Remove and Sweep from the empty table
\* the entries are in ascending order of Scheduled.
C22_EntriesAscending ==
  \A i, j \in 1..Len(table[1].entries) :
    i < j => table[1].entries[i].scheduled <= table[1].entries[j].scheduled

C22_Witness ==
  /\ Len(table[1].entries) = 3
  /\ table[1].entries[1].uuid = 3 /\ table[1].entries[3].uuid = 1
  /\ table[1].entries[1].scheduled < table[1].entries[2].scheduled
  /\ table[1].entries[2].scheduled < table[1].entries[3].scheduled
  /\ swept[1] # << >>

\* C23: after any sequence of Update, Remove and Sweep from the empty table
\* no task id is in more than one entry.
C23_OneEntryPerTask ==
  \A i, j \in 1..Len(table[1].entries) :
    table[1].entries[i].uuid = table[1].entries[j].uuid => i = j

C23_Witness ==
  /\ Len(table[1].entries) = 3
  /\ \E i \in 1..3 : \E m \in 1..Len(swept[1]) : table[1].entries[i].uuid = swept[1][m]
  /\ table[1].entries[1].scheduled = table[1].entries[3].scheduled

\* The entries of the tasks other than uuid
OtherEntries(entries, uuid) ==
  { entries[i] : i \in { k \in 1..Len(entries) : entries[k].uuid # uuid } }

\* The table holds exactly the entry the snapshot calls for: one entry
\* (uuid, scheduled) for a pending task with a scheduled time, none otherwise.
EntryMatches(entries, task) ==
  LET own == { i \in 1..Len(entries) : entries[i].uuid = task.uuid }
  IN IF task.status = "pending" /\ task.scheduled # 0
     THEN /\ Cardinality(own) = 1
          /\ \A i \in own : entries[i].scheduled = task.scheduled
     ELSE own = {}

\* The step in which the hook's SyncEvent call returns without error
HookSyncReturns(p) ==
  /\ pc[p] = "write" /\ pc'[p] = "finish"
  /\ ctx[p].mode = "hook" /\ ~last'[p].err

C25_IndexRoundTrip ==
  idx[1].ok =>
    \A t \in Tasks :
      /\ \A e \in EventIds :
           /\ IndexGet(IndexSet(idx[1], t, e), t) = e
           /\ \A u \in Tasks \ {t} : IndexGet(IndexSet(idx[1], t, e), u) = IndexGet(idx[1], u)
      /\ IndexGet(IndexRemove(idx[1], t), t) = 0
      /\ \A u \in Tasks \ {t} : IndexGet(IndexRemove(idx[1], t), u) = IndexGet(idx[1], u)

C25_Witness ==
  /\ idx[1].ok /\ idx[1].dirty
  /\ IndexGet(idx[1], 1) = 2 /\ IndexGet(idx[1], 2) = 0
  /\ indexFile.whole /\ DecodeMappings(indexFile.doc)[1] = 1
  /\ DecodeMappings(indexFile.doc)[2] = 1

\* C26: Set marks the index dirty exactly when the stored value changes and
\* Remove exactly when an entry existed; otherwise the flag stays as it was.
\* No step of the index sets the flag without changing the mapping, and only
\* a load changes the mapping without setting it.
C26_DirtyOnlyOnChange ==
  [][ /\ idx[1].ok =>
           \A t \in Tasks :
             /\ \A e \in EventIds :
                  LET r == IndexSet(idx[1], t, e)
                  IN /\ r.mappings # idx[1].mappings <=> IndexGet(idx[1], t) # e
                     /\ r.dirty = IF IndexGet(idx[1], t) # e THEN TRUE ELSE idx[1].dirty
             /\ LET r == IndexRemove(idx[1], t)
                IN /\ r.mappings # idx[1].mappings <=> IndexGet(idx[1], t) # 0
                   /\ r.dirty = IF IndexGet(idx[1], t) # 0 THEN TRUE ELSE idx[1].dirty
      /\ (~idx[1].dirty /\ idx'[1].dirty) => idx'[1].mappings # idx[1].mappings
      /\ (idx'[1].mappings # idx[1].mappings /\ idx'[1] # NewEventIndex) => idx'[1].dirty ]_vars

C26_Witness ==
  /\ idx[1].ok /\ ~idx[1].dirty /\ pc[1] = "done"
  /\ IndexGet(idx[1], 1) = 0 /\ IndexGet(idx[1], 2) = 1
  /\ indexFile.whole /\ indexFile.doc = EncodeMappings(idx[1].mappings)
  /\ obs[1].indexWrites = 2

\* C27: Save writes only when the index is dirty; a Save that encodes leaves
\* the file holding the whole current mapping, which NewEventIndex reads back
\* unchanged, and clears the flag; a Save that does not write, or whose write
\* fails, leaves the mapping and the flag as they were, and one that does not
\* write leaves the file as it was.
C27_FlushWritesWhenDirty ==
  [][ /\ (pc[1] # "idxEncode" /\ pc'[1] = "idxEncode")
           => idx[1].dirty /\ idx'[1] = idx[1]
              /\ obs'[1].indexWrites = obs[1].indexWrites + 1
      /\ (pc[1] # "idxEncode" /\ pc'[1] # "idxEncode")
           => obs'[1].indexWrites = obs[1].indexWrites /\ indexFile' = indexFile
      /\ (pc[1] = "idle" /\ pc'[1] = "done")
           => idx'[1] = idx[1] /\ indexFile' = indexFile
      /\ (pc[1] = "idxEncode" /\ pc'[1] = "done")
           => IF indexFile'.whole
              THEN /\ ~idx'[1].dirty /\ idx'[1].mappings = idx[1].mappings
                   /\ NewEventIndex'.ok
                   /\ NewEventIndex'.mappings = idx[1].mappings
              ELSE idx'[1] = idx[1] /\ idx[1].dirty ]_vars

C27_Witness ==
  /\ pc[1] = "done" /\ idx[1].ok /\ ~idx[1].dirty
  /\ idx[1].mappings[1] = 1 /\ idx[1].mappings[2] = 2
  /\ indexFile.whole /\ NewEventIndex.mappings = idx[1].mappings
  /\ obs[1].indexWrites = 1

\* Start and end both parse as timestamps.
WellFormed(e) == ParseRFC3339(e.start).ok /\ ParseRFC3339(e.end).ok

\* The existing event and the target of the running SyncEvent call
Existing(p) == (CHOOSE x \in ctx[p].existing : TRUE).ev
Target(p) == ctx[p].target

\* The step in which SyncEvent returns after it compared the two events
Compared(p) == pc[p] = "write" /\ pc'[p] # "write" /\ ctx[p].existing # {}

\* The fields in which two well-formed events differ, start and end counted
\* as one by the instants they denote.
Differing(e, t) ==
  { f \in {"summary", "description", "colorId"} : e[f] # t[f] }
    \cup (IF ParseRFC3339(e.start).t # ParseRFC3339(t.start).t
             \/ ParseRFC3339(e.end).t # ParseRFC3339(t.end).t
          THEN {"time"} ELSE {})

\* C28: for every well-formed event e, EventNeedsUpdate(e, e) returns no
\* patch and no error; a sync whose target is the existing event itself
\* patches nothing.
C28_SameEventNeedsNoPatch ==
  [][ \A p \in {1} :
        ctx[p].existing # {}
          => /\ \A e \in { Existing(p), Target(p) } :
                  WellFormed(e) => EventNeedsUpdate(e, e) = [err |-> FALSE, patch |-> {}]
             /\ (Compared(p) /\ WellFormed(Target(p)) /\ Existing(p) = Target(p))
                  => ~last'[p].err /\ last'[p].patches = 0 /\ events' = events ]_vars

C28_Witness ==
  /\ pc[1] = "finish" /\ ctx[1].existing # {}
  /\ Existing(1) = Target(1) /\ WellFormed(Target(1))
  /\ Target(1).start = << "dateTime", 1, "+01:00" >>
  /\ last[1].valid /\ ~last[1].err /\ last[1].patches = 0

\* C29: for well-formed existing and target events the patch holds exactly
\* the fields that differ: title, description and color each exactly when it
\* differs, start and end together exactly when the parsed start or the
\* parsed end differs, and no patch exactly when nothing differs; a patch
\* that is applied gives those fields the target's values and leaves the
\* others.
C29_PatchIsTheDifference ==
  [][ \A p \in {1} :
        (ctx[p].existing # {} /\ WellFormed(Existing(p)) /\ WellFormed(Target(p)))
          => LET e == Existing(p)
                 t == Target(p)
                 nu == EventNeedsUpdate(e, t)
             IN /\ ~nu.err /\ nu.patch = Differing(e, t)
                /\ Compared(p)
                     => /\ last'[p].patches = 1 <=> Differing(e, t) # {}
                        /\ (last'[p].patches = 1 /\ ~last'[p].err)
                             => \E x \in events' :
                                  /\ x.id = last'[p].event
                                  /\ \A f \in {"summary", "description", "colorId"} :
                                       x.ev[f] = IF e[f] # t[f] THEN t[f] ELSE e[f]
                                  /\ IF "time" \in Differing(e, t)
                                     THEN x.ev.start = t.start /\ x.ev.end = t.end
                                     ELSE x.ev.start = e.start /\ x.ev.end = e.end ]_vars

C29_Witness ==
  /\ pc[1] = "finish" /\ ctx[1].existing # {}
  /\ WellFormed(Existing(1)) /\ WellFormed(Target(1))
  /\ Differing(Existing(1), Target(1)) = {"description", "time"}
  /\ Existing(1).start = FormatRFC3339(1) /\ Target(1).start = << "dateTime", 1, "+01:00" >>
  /\ Existing(1).end = FormatRFC3339(32) /\ Target(1).end = FormatRFC3339(31)
  /\ last[1].patches = 1 /\ ~last[1].err
  /\ \E x \in events : x.ev = Target(1)

\* C30: when the start or the end of the existing event or of the target does
\* not parse, EventNeedsUpdate reports an error and no patch, and the sync
\* that called it fails without a patch or a create, leaving the remote
\* events and the index as they were.
C30_MalformedTimeLeavesEventAlone ==
  [][ \A p \in {1} :
        (ctx[p].existing # {} /\ ~(WellFormed(Existing(p)) /\ WellFormed(Target(p))))
          => /\ EventNeedsUpdate(Existing(p), Target(p)) = [err |-> TRUE, patch |-> {}]
             /\ Compared(p)
                  => /\ last'[p].err /\ last'[p].patches = 0 /\ last'[p].creates = 0
                     /\ events' = events /\ nextId' = nextId
                     /\ idx' = idx /\ table' = table ]_vars

C30_Witness ==
  /\ pc[1] = "finish" /\ ctx[1].existing # {}
  /\ ~WellFormed(Existing(1)) /\ WellFormed(Target(1))
  /\ Existing(1).summary # Target(1).summary
  /\ last[1].valid /\ last[1].err /\ last[1].patches = 0
  /\ events = ctx[1].existing /\ idx[1].mappings = EmptyMappings

\* ------------------------------------------------------------ materializer
\* None of end, start, scheduled and due is set
LacksEveryTime(task) ==
  task.end = 0 /\ task.start = 0 /\ task.scheduled = 0 /\ task.due = 0

\* The step in which SyncEvent has materialized its target
Materialized(p) == pc[p] = "resolve" /\ pc'[p] = "write"

\* C31: a snapshot of any status that has none of end, start, scheduled and
\* due set does not materialize: the conversion fails, SyncEvent returns an
\* error without a target event, and the window is never taken from the clock.
C31_NoTimeNeverMaterializes ==
  [][ (pc[1] = "resolve" /\ LacksEveryTime(ctx[1].task) /\ pc'[1] # "resolve")
        => /\ ~ConvertTaskToCalendarEvent(ctx[1].task, now).ok
           /\ pc'[1] = "finish" /\ last'[1].valid /\ last'[1].err
           /\ ctx'[1].target = NoEvent ]_vars

\* C32: the window of a materialized event follows one priority order.  A
\* completed task ends at its end time, else at the time of the call, and
\* starts earlier by its actual duration, else its estimate, else 30 minutes.
\* Any other task begins at its start time, else its scheduled time, else its
\* due time, and ends later by its estimate, else 30 minutes.  A completed
\* task with end 90 and estimate 60 gets the window 30..90 and the title
\* marker of a completed task.
C32_WindowFollowsPriority ==
  [][ Materialized(1) =>
        LET task == ctx[1].task
            s == ParseRFC3339(ctx'[1].target.start)
            e == ParseRFC3339(ctx'[1].target.end)
            len == IF task.est > 0 THEN task.est ELSE DefaultDuration
        IN /\ s.ok /\ e.ok
           /\ task.status = "completed"
                => /\ e.t = (IF task.end # 0 THEN task.end ELSE now)
                   /\ e.t - s.t = (IF task.act > 0 THEN task.act ELSE len)
           /\ task.status # "completed"
                => /\ s.t = (IF task.start # 0 THEN task.start
                             ELSE IF task.scheduled # 0 THEN task.scheduled
                             ELSE task.due)
                   /\ s.t # 0
                   /\ e.t - s.t = len
           /\ (task.status = "completed" /\ task.end = 90 /\ task.est = 60 /\ task.act = 0)
                => /\ s.t = 30 /\ e.t = 90
                   /\ ctx'[1].target.summary = "done" ]_vars

C32_Witness ==
  /\ pc[1] = "write"
  /\ ctx[1].task.status = "completed" /\ ctx[1].task.end = 90
  /\ ctx[1].task.est = 60 /\ ctx[1].task.act = 0
  /\ ctx[1].task.start # 0 /\ ctx[1].task.scheduled # 0
  /\ ctx[1].target.start = FormatRFC3339(30)
  /\ ctx[1].target.end = FormatRFC3339(90)
  /\ ctx[1].target.summary = "done"

\* C33: the target SyncEvent materializes carries the task's identifier as
\* taskwarrior_id, and so does the event a successful create puts on the
\* calendar: the search by that property for the task can return the new
\* event (and returns it when the task had no event), and no search for
\* another task returns it.
C33_EventCarriesTaskId ==
  [][ \A p \in Procs :
        /\ Materialized(p) => ctx'[p].target.taskwarrior_id = ctx[p].task.uuid
        /\ (pc[p] = "write" /\ ctx[p].existing = {} /\ nextId' # nextId)
             => \E x \in events' :
                  /\ events' = events \cup {x} /\ x \notin events
                  /\ x.ev.taskwarrior_id = ctx[p].task.uuid
                  /\ {x} \in GetEventByTaskID(ctx[p].task.uuid)'
                  /\ EventsOfTask(ctx[p].task.uuid) = {}
                       => GetEventByTaskID(ctx[p].task.uuid)' = { {x} }
                  /\ \A u \in Tasks \ {ctx[p].task.uuid} :
                       \A r \in GetEventByTaskID(u)' : x \notin r ]_vars

C33_Witness ==
  \E p \in Procs, x \in events :
    /\ last[p].valid /\ ~last[p].err /\ last[p].creates = 1
    /\ x.id = last[p].event /\ last[p].task = 2
    /\ x.ev.taskwarrior_id = 2
    /\ GetEventByTaskID(2) = { {x} }
    /\ EventsOfTask(1) # {} /\ x \notin EventsOfTask(1)

\* The readings of the clock
ClockReadings == 1..(MaxTime + 1)

\* The task is open, not started, and a due or scheduled time lies before t
OverdueAt(task, t) ==
  /\ task.status # "completed" /\ task.start = 0
  /\ (task.due # 0 /\ task.due < t) \/ (task.scheduled # 0 /\ task.scheduled < t)

\* C34 (as claimed): the target SyncEvent materializes for a snapshot is the one
\* a materialization of the same snapshot from the same color cache file
\* yields at any other time.
C34_SameTargetAtAnyTime ==
  [][ Materialized(1)
        => \A t \in ClockReadings :
             ConvertTaskToCalendarEvent(ctx[1].task, t).event = ctx'[1].target ]_vars

\* C34 (amended): materializing reads the snapshot, the color cache file and
\* the clock, and writes nothing.  Two materializations of one snapshot from
\* the same file agree on success, description, color and task identifier; the
\* titles differ exactly when the task is overdue at one of the two times and
\* not at the other; the windows differ exactly when the task is completed
\* without end time and the times differ, and then by the difference of the
\* times.
C34_SameTargetUpToClock ==
  [][ (pc[1] = "resolve" /\ pc'[1] # "resolve")
        => /\ colorFile' = colorFile /\ cache' = cache
           /\ Materialized(1)
                => ctx'[1].target = ConvertTaskToCalendarEvent(ctx[1].task, now).event
           /\ \A t \in ClockReadings :
                LET task == ctx[1].task
                    a == ConvertTaskToCalendarEvent(task, now)
                    b == ConvertTaskToCalendarEvent(task, t)
                    shift == IF task.status = "completed" /\ task.end = 0
                             THEN t - now ELSE 0
                IN /\ a.ok = b.ok
                   /\ \A f \in {"description", "colorId", "taskwarrior_id"} :
                        a.event[f] = b.event[f]
                   /\ a.event.summary # b.event.summary
                        <=> OverdueAt(task, now) # OverdueAt(task, t)
                   /\ a.ok => /\ ParseRFC3339(b.event.start).t
                                   = ParseRFC3339(a.event.start).t + shift
                              /\ ParseRFC3339(b.event.end).t
                                   = ParseRFC3339(a.event.end).t + shift ]_vars

C34_Witness ==
  /\ pc[1] = "write" /\ now = 2
  /\ ctx[1].task.status = "pending" /\ ctx[1].task.scheduled = 1 /\ ctx[1].task.start = 0
  /\ ctx[1].target.summary = "overdue"
  /\ ConvertTaskToCalendarEvent(ctx[1].task, 1).event.summary = "plain"
  /\ ConvertTaskToCalendarEvent(ctx[1].task, 1).event.description = ctx[1].target.description
  /\ ConvertTaskToCalendarEvent(ctx[1].task, 1).event.start = ctx[1].target.start

\* The step in which a repeated SyncEvent call for the snapshot returns from
\* its create-or-patch branch
SecondSyncWrites == runs > 1 /\ pc[1] = "write" /\ pc'[1] # "write"

\* C35 (as claimed): when SyncEvent runs a second time for the same snapshot,
\* against the event its first run created, it finds nothing to patch and
\* issues no remote create and no remote patch.
C35_SecondSyncWritesNothing ==
  [][ SecondSyncWrites
        => /\ ctx[1].existing # {}
           /\ last'[1].creates = 0 /\ last'[1].patches = 0
           /\ events' = events ]_vars

\* C35 (amended): the second SyncEvent call for the same snapshot finds the
\* event the first one created and never creates another.  It patches exactly
\* the fields whose materialization moved with the clock: the title when the
\* task has become overdue since, the window when the task is completed
\* without end time and the clock has advanced; otherwise it issues no patch.
\* An accepted patch leaves the event equal to the new target.
C35_SecondSyncPatchesClockOnly ==
  [][ /\ (runs > 1 /\ Materialized(1))
           => /\ ctx'[1].existing # {}
              /\ LET task == ctx[1].task
                     e == Existing(1)'
                     d == Differing(e, Target(1)')
                 IN /\ d \subseteq {"summary", "time"}
                    /\ "summary" \in d <=> (OverdueAt(task, now) /\ e.summary = "plain")
                    /\ "time" \in d <=> /\ task.status = "completed" /\ task.end = 0
                                        /\ ParseRFC3339(e.end).t # now
      /\ SecondSyncWrites
           => /\ ctx[1].existing # {}
              /\ last'[1].creates = 0 /\ nextId' = nextId
              /\ LET d == Differing(Existing(1), Target(1))
                 IN /\ last'[1].patches = 1 <=> d # {}
                    /\ d = {} => events' = events /\ ~last'[1].err
                    /\ (last'[1].patches = 1 /\ ~last'[1].err)
                         => events' = { RemoteEvent(last'[1].event, Target(1)) } ]_vars

C35_Witness ==
  /\ runs = 2 /\ pc[1] = "finish" /\ now = 2
  /\ ctx[1].task.status = "completed" /\ ctx[1].task.end = 0
  /\ last[1].valid /\ ~last[1].err /\ last[1].patches = 1 /\ last[1].creates = 0
  /\ \E x \in events : x.ev = ctx[1].target /\ x.ev.end = FormatRFC3339(2)

\* C36: after SyncEvent materialized a task of a new project, the color cache
\* file holds the project with the color the event got, so a materialization
\* that loads its cache from the file afterwards gives the project the same
\* color and gives another new project a different one.
C36_ColorAssignmentPersists ==
  [][ (Materialized(1) /\ ctx[1].task.project # 0)
        => LET task == ctx[1].task
               later(pr) == ConvertTaskToCalendarEvent([task EXCEPT !.project = pr], now)'
           IN /\ colorFile'.doc[task.project].colorId = ctx'[1].target.colorId
              /\ later(task.project).event.colorId = ctx'[1].target.colorId
              /\ \A q \in (1..NumNamedProjects) \ {task.project} :
                   later(q).event.colorId # ctx'[1].target.colorId ]_vars

\* --------------------------------------------------------- schedule entries
\* The entries a step of Update or Remove put into the schedule
Entered == { i \in 1..Len(table'[1].entries) :
               \A j \in 1..Len(table[1].entries) :
                 table[1].entries[j] # table'[1].entries[i] }

PrintedRight(p) ==
  /\ (Running(p) /\ ~Ended(p)) => obs[p].printed = << >>
  /\ pc[p] \in {"encode", "flush", "idxEncode", "done"}
       => /\ obs[p].printed = LastSnapshot(p)
          /\ obs[p].outputs = Len(LastSnapshot(p))

Suppressed(task) == task.status \in {"deleted", "waiting"} \/ task.blocked

\* C39: for a swept task whose current state is deleted, waiting or BLOCKED,
\* the sweep pass issues no remote create and no remote patch, and leaves the
\* calendar as it is.
C39_SweepSkipsSuppressed ==
  [][ \A p \in Procs :
        (pc[p] = "write" /\ pc'[p] # "write" /\ ctx[p].mode = "sweep"
           /\ Suppressed(ctx[p].task))
          => /\ last'[p].creates = 0 /\ last'[p].patches = 0
             /\ events' = events ]_vars

\* ------------------------------------------------- the index under goroutines
\* C40: under every interleaving of Get, Set, Remove and Save from concurrent
\* goroutines no update is lost: whenever no call is in progress and the
\* dirty flag is false, the file decodes to the mapping held in memory.
C40_NoUpdateLost ==
  ((\A g \in Procs : pc[g] = "idle") /\ ~idx[1].dirty)
    => /\ indexFile.whole
       /\ DecodeMappings(indexFile.doc) = idx[1].mappings

====
